---- MODULE Spec2Model ----
(***************************************************************************)
(* Model of the weekly MOT + Rain + Day Type data collection pipeline:     *)
(*   - the features table (db_mock/tables.py) and its three writers        *)
(*     (insert_new_data, update_rain_average_in_db, update_day_type_in_db),*)
(*   - the day-type classifier and its calendar helper,                    *)
(*   - the three quality checks, the final report and the Airflow DAG      *)
(*     wiring of "weekly_data_collecting copy.py".                         *)
(*                                                                         *)
(* Conventions.                                                            *)
(*   A calendar date is its proleptic Gregorian ordinal (Python's          *)
(*   date.toordinal()); a date STRING 'YYYY-MM-DD' is the triple <<y,m,d>>.*)
(*   A nullable SQL / Python value is a tuple: <<>> is NULL / None, and a  *)
(*   non-empty tuple is a value: <<v>> for a line count, and the exact     *)
(*   fraction <<num, den>> for rain_average and the quality scores.        *)
(***************************************************************************)
EXTENDS Integers, Sequences, FiniteSets, TLC

VARIABLES
    store,   \* the features table: feature_date (ordinal) -> row, for the rows present
    today,   \* CURRENT_DATE / datetime.now().date() of the run, as an ordinal
    ti,      \* DAG run: task_id -> task instance state
    xcom,    \* DAG run: XCom key -> pushed value (<<>> when nothing was pushed)
    call     \* a function call: [fn, args, runs, ret]; ret is set once it ran

vars == <<store, today, ti, xcom, call>>

(***************************************************************************)
(* Bounds of the model.                                                    *)
(***************************************************************************)
MinYear == 2020
NumYears == 9

Years == MinYear .. (MinYear + NumYears - 1)

(***************************************************************************)
(* Calendar arithmetic (Python's datetime / calendar modules).             *)
(***************************************************************************)
IsLeap(y) == (y % 4 = 0) /\ ((y % 100 # 0) \/ (y % 400 = 0))

DaysInMonth(y, m) ==
    IF m = 2 THEN (IF IsLeap(y) THEN 29 ELSE 28)
    ELSE IF m \in {4, 6, 9, 11} THEN 30 ELSE 31

DaysBeforeYear(y) ==
    LET p == y - 1 IN p * 365 + (p \div 4) - (p \div 100) + (p \div 400)

RECURSIVE DaysBeforeMonth(_, _)
DaysBeforeMonth(y, m) ==
    IF m = 1 THEN 0 ELSE DaysBeforeMonth(y, m - 1) + DaysInMonth(y, m - 1)

\* date(y, m, d).toordinal()
ToOrdinal(y, m, d) == DaysBeforeYear(y) + DaysBeforeMonth(y, m) + d

\* date.weekday(): Monday = 0 .. Sunday = 6
Weekday(ord) == (ord + 6) % 7

IsValidDate(y, m, d) == m \in 1..12 /\ d >= 1 /\ d <= DaysInMonth(y, m)

\* calendar.SATURDAY
SATURDAY == 5

\* calendar.monthcalendar(year, month)[week][col], weeks starting on Monday,
\* week and col counted from 0; days outside the month are 0.
MonthCalendarCell(year, month, week, col) ==
    LET first == Weekday(ToOrdinal(year, month, 1))
        n     == week * 7 + col - first + 1
    IN IF n >= 1 /\ n <= DaysInMonth(year, month) THEN n ELSE 0

(***************************************************************************)
(* get_second_saturday (day_type_collecting.py:106-121, identical in       *)
(* day_type_collecting_functional.py:68-81).  The result is the date       *)
(* string f"{year:04d}-{month:02d}-{second_saturday:02d}".                 *)
(***************************************************************************)
\* get_second_saturday reading the Saturday of the first calendar week
\* (cal[0]) where the code reads that of the second (cal[1]).
get_second_saturday_first_week(year, month) ==
    LET first_week_sat == MonthCalendarCell(year, month, 0, SATURDAY)
        second_saturday ==
            IF first_week_sat # 0
            THEN first_week_sat
            ELSE MonthCalendarCell(year, month, 1, SATURDAY)
    IN <<year, month, second_saturday>>

get_second_saturday(year, month) ==
    LET first_week_sat == MonthCalendarCell(year, month, 0, SATURDAY)
        second_saturday ==
            IF first_week_sat # 0
            THEN MonthCalendarCell(year, month, 1, SATURDAY)
            ELSE IF MonthCalendarCell(year, month, 1, SATURDAY) = 0
                 THEN MonthCalendarCell(year, month, 2, SATURDAY)
                 ELSE MonthCalendarCell(year, month, 1, SATURDAY)
    IN <<year, month, second_saturday>>

\* date.fromordinal(ord) rendered by strftime('%Y-%m-%d'): the triple <<y, m, d>>.
YearOf(ord) ==
    CHOOSE y \in (MinYear - 1) .. (MinYear + NumYears) :
        DaysBeforeYear(y) < ord /\ ord <= DaysBeforeYear(y + 1)

MonthOf(ord) ==
    LET y == YearOf(ord)
        n == ord - DaysBeforeYear(y)
    IN CHOOSE m \in 1..12 :
        DaysBeforeMonth(y, m) < n /\ n <= DaysBeforeMonth(y, m) + DaysInMonth(y, m)

DateStr(ord) ==
    LET y == YearOf(ord)
        m == MonthOf(ord)
    IN <<y, m, ord - DaysBeforeYear(y) - DaysBeforeMonth(y, m)>>

(***************************************************************************)
(* Day-type classification (day_type_collecting.py).                       *)
(***************************************************************************)
\* get_festival_dates(year).values(): the festival date strings of a year.
get_festival_dates(year) ==
    { get_second_saturday(year, 1),
      <<year, 2, 14>>,
      <<year, 4, 13>>, <<year, 4, 14>>, <<year, 4, 15>>,
      <<year, 12, 24>>, <<year, 12, 25>>, <<year, 12, 31>> }

\* One row of the holiday calendar: the text of its 'Start Date' cell, as
\*   enc = "compact"  : 8 digits YYYYMMDD
\*   enc = "dashed"   : YYYY-MM-DD, zero padded (10 characters)
\*   enc = "dashed8"  : Y-M-D written in 8 characters, e.g. 2025-1-1
\*   enc = "other"    : any text that is not 8 long and holds no '-'
\* with the year, month and day its digits spell.
\* The parse of classify_day_types: <<>> when the row is skipped.
ParseStartDate(e) ==
    IF e.enc = "compact"
    THEN \* len(date_str) == 8: strptime(date_str, '%Y%m%d')
         IF IsValidDate(e.y, e.m, e.d) THEN << <<e.y, e.m, e.d>> >> ELSE <<>>
    ELSE IF e.enc = "dashed8"
    THEN \* len(date_str) == 8 too: strptime(.., '%Y%m%d') raises on the '-'
         <<>>
    ELSE IF e.enc = "dashed"
    THEN \* '-' in date_str: strptime(date_str, '%Y-%m-%d')
         IF IsValidDate(e.y, e.m, e.d) THEN << <<e.y, e.m, e.d>> >> ELSE <<>>
    ELSE <<>>

\* The holiday_dates set built from holiday_df.
HolidayDates(holiday_df) ==
    { ParseStartDate(e)[1] : e \in {x \in holiday_df : ParseStartDate(x) # <<>>} }

\* The festival_dates set: the festivals of every year the dates cover.
FestivalDates(dates) ==
    UNION { get_festival_dates(YearOf(d)) : d \in dates }

\* The priority rule of the classification loop, with the order of the
\* two lookups exchanged (festival looked up before holiday).
DayTypeOfFestivalFirst(date_str, holiday_dates, festival_dates) ==
    IF date_str \in festival_dates THEN 2
    ELSE IF date_str \in holiday_dates THEN 0
    ELSE 1

\* The rule with a third lookup: a Saturday or Sunday outside both sets is
\* taken for a holiday.
DayTypeOfWeekendHoliday(date_str, holiday_dates, festival_dates) ==
    IF date_str \in holiday_dates THEN 0
    ELSE IF date_str \in festival_dates THEN 2
    ELSE IF Weekday(ToOrdinal(date_str[1], date_str[2], date_str[3])) >= 5 THEN 0
    ELSE 1

\* The priority rule of the classification loop: holiday (0) > festival (2) > normal (1).
DayTypeOf(date_str, holiday_dates, festival_dates) ==
    IF date_str \in holiday_dates THEN 0
    ELSE IF date_str \in festival_dates THEN 2
    ELSE 1

\* classify_day_types(dates, holiday_df): feature_date -> day_type, one row
\* per date (an empty DataFrame when there are no dates).
classify_day_types(dates, holiday_df) ==
    [d \in dates |->
        DayTypeOf(DateStr(d), HolidayDates(holiday_df), FestivalDates(dates))]

(***************************************************************************)
(* The features table (tables.py:17-29) and its writers.                   *)
(***************************************************************************)
\* The seven transit line columns.
transport_columns ==
    <<"arl", "bts", "mrt_blue", "mrt_purple", "mrt_pink", "srt_red", "mrt_yellow">>

LineColumns == {transport_columns[i] : i \in 1..Len(transport_columns)}

\* The non-key columns of a features row.
RowColumns == {"day_type", "dow", "rain_average"} \cup LineColumns

\* A features row (without its key) from its parts; lines maps each line
\* column to a nullable float.
MkRow(day_type, dow, rain_average, lines) ==
    [c \in RowColumns |->
        IF c = "day_type" THEN day_type
        ELSE IF c = "dow" THEN dow
        ELSE IF c = "rain_average" THEN rain_average
        ELSE lines[c]]

\* The feature_date values of a batch (a sequence of records with a date field).
BatchDates(batch, key) == {batch[i][key] : i \in 1..Len(batch)}

HasDuplicateDates(batch, key) ==
    \E i, j \in 1..Len(batch) : i < j /\ batch[i][key] = batch[j][key]

\* The upsert statement of insert_new_data with the DO UPDATE SET list
\* adding the incoming line values to the stored ones instead of replacing
\* the row (SET arl = features.arl + EXCLUDED.arl, ...).
UpsertRowAccumulating(old, new) ==
    IF old = <<>> THEN new
    ELSE [c \in RowColumns |->
            IF c \in LineColumns /\ old[1][c] # <<>> /\ new[c] # <<>>
            THEN <<old[1][c][1] + new[c][1]>>
            ELSE new[c]]

\* INSERT ... ON CONFLICT (feature_date) DO UPDATE SET <all ten columns> =
\* EXCLUDED.<column>: the row stored for the date after the statement, given
\* the row stored before (<<>> when there was none) and the incoming row.
UpsertRow(old, new) == new

\* insert_new_data(df) on the table db.  df is a sequence of rows, each with
\* a feature_date and the ten columns.  db_up = FALSE stands for any
\* psycopg2 error (connect, execute); nothing is committed then.  The result
\* is the table and the function's return value.
\* An empty df raises at df['feature_date'].iloc[0]; two rows of one date in
\* one execute_values page (page_size=100 > the batches here) make the
\* statement fail ("cannot affect row a second time"): both return False.
insert_new_data(db, df, db_up) ==
    IF ~db_up \/ Len(df) = 0 \/ HasDuplicateDates(df, "feature_date")
    THEN [db |-> db, ok |-> FALSE, updated_count |-> 0]
    ELSE LET incoming(d) ==
                 LET i == CHOOSE k \in 1..Len(df) : df[k].feature_date = d
                 IN [c \in RowColumns |-> df[i][c]]
             dates == BatchDates(df, "feature_date")
         IN [db |-> [d \in (DOMAIN db) \cup dates |->
                        IF d \in dates
                        THEN UpsertRow(IF d \in DOMAIN db THEN <<db[d]>> ELSE <<>>,
                                       incoming(d))
                        ELSE db[d]],
             ok |-> TRUE,
             updated_count |-> Len(df)]

\* The WHERE clause of the rain UPDATE without its "rain_average IS NULL".
RainGuardDateOnly(db, d) == d \in DOMAIN db

\* UPDATE features SET rain_average = %s
\*   WHERE feature_date = %s AND rain_average IS NULL  -- rows it matches
RainGuard(db, d) == d \in DOMAIN db /\ db[d]["rain_average"] = <<>>

\* The loop of update_rain_average_in_db over rain_data[1..n]: the table and
\* updated_count after the n first rows.
RECURSIVE RainLoop(_, _, _)
RainLoop(db, rain_data, n) ==
    IF n = 0 THEN [db |-> db, updated_count |-> 0]
    ELSE LET prev == RainLoop(db, rain_data, n - 1)
             row  == rain_data[n]
         IN IF RainGuard(prev.db, row.date)
            THEN [db |-> [prev.db EXCEPT ![row.date]["rain_average"] = row.rain_average],
                  updated_count |-> prev.updated_count + 1]
            ELSE prev

\* update_rain_average_in_db(rain_data) on the table db.
update_rain_average_in_db(db, rain_data, db_up) ==
    IF Len(rain_data) = 0 \/ ~db_up
    THEN [db |-> db, ok |-> FALSE, updated_count |-> 0]
    ELSE LET r == RainLoop(db, rain_data, Len(rain_data))
         IN [db |-> r.db, ok |-> TRUE, updated_count |-> r.updated_count]

\* The day-type UPDATE writing its value into every column of the matched
\* row's classification pair (day_type and rain_average cleared together).
DayTypeWriteClearingRain(row, day_type) ==
    [row EXCEPT !["day_type"] = day_type, !["rain_average"] = <<>>]

\* UPDATE features SET day_type = %s: the matched row after the statement.
DayTypeWrite(row, day_type) == [row EXCEPT !["day_type"] = day_type]

\* The WHERE clause of the day-type UPDATE without its "day_type = -1".
DayTypeGuardDateOnly(db, d) == d \in DOMAIN db

\*   WHERE feature_date = %s AND day_type = -1  -- rows the UPDATE matches
DayTypeGuard(db, d) == d \in DOMAIN db /\ db[d]["day_type"] = -1

\* The loop of update_day_type_in_db over day_type_data[1..n].
RECURSIVE DayTypeLoop(_, _, _)
DayTypeLoop(db, day_type_data, n) ==
    IF n = 0 THEN [db |-> db, updated_count |-> 0]
    ELSE LET prev == DayTypeLoop(db, day_type_data, n - 1)
             row  == day_type_data[n]
         IN IF DayTypeGuard(prev.db, row.feature_date)
            THEN [db |-> [prev.db EXCEPT ![row.feature_date] =
                              DayTypeWrite(prev.db[row.feature_date], row.day_type)],
                  updated_count |-> prev.updated_count + 1]
            ELSE prev

\* update_day_type_in_db(day_type_data) on the table db.
update_day_type_in_db(db, day_type_data, db_up) ==
    IF Len(day_type_data) = 0 \/ ~db_up
    THEN [db |-> db, ok |-> FALSE, updated_count |-> 0]
    ELSE LET r == DayTypeLoop(db, day_type_data, Len(day_type_data))
         IN [db |-> r.db, ok |-> TRUE, updated_count |-> r.updated_count]

(***************************************************************************)
(* The transit normalizer (mot_collecting_fucntional.py:97-232).           *)
(* A text (a vehicle label, a keyword) is the sequence of its Unicode code *)
(* points, so that "keyword in col" is sub-sequence containment and the    *)
(* column order of the pivot table is the lexicographic order of labels.   *)
(***************************************************************************)
\* keyword in col
Contains(col, keyword) ==
    \E i \in 0..(Len(col) - Len(keyword)) :
        SubSeq(col, i + 1, i + Len(keyword)) = keyword

\* Python's str order: a < b by code points.
RECURSIVE LexLess(_, _)
LexLess(a, b) ==
    IF a = <<>> THEN b # <<>>
    ELSE IF b = <<>> THEN FALSE
    ELSE IF a[1] # b[1] THEN a[1] < b[1]
    ELSE LexLess(Tail(a), Tail(b))

\* The elements of a finite set as a sequence, in some order.
RECURSIVE SetToSeq(_)
SetToSeq(S) ==
    IF S = {} THEN <<>>
    ELSE LET x == CHOOSE y \in S : TRUE IN <<x>> \o SetToSeq(S \ {x})

\* Sum of f[x] over the finite set S.
RECURSIVE SumOver(_, _)
SumOver(S, f) ==
    IF S = {} THEN 0
    ELSE LET x == CHOOSE y \in S : TRUE IN f[x] + SumOver(S \ {x}, f)

\* line_groups, in the order of the dict: the group and its keywords.
line_groups ==
    << [line_key |-> "ARL",   \* 'arl' 'ARL' 'สุวรรณภูมิ'
        keywords |-> << <<97, 114, 108>>,
                       <<65, 82, 76>>,
                       <<3626, 3640, 3623, 3619, 3619, 3603, 3616, 3641, 3617, 3636>> >>],
       [line_key |-> "BTS",   \* 'bts' 'BTS' 'ลูกฟูก'
        keywords |-> << <<98, 116, 115>>,
                       <<66, 84, 83>>,
                       <<3621, 3641, 3585, 3615, 3641, 3585>> >>],
       [line_key |-> "blue",   \* 'น้ำเงิน' 'นำเงิน' 'น้าเงิน' 'สีน้ำเงิน'
        keywords |-> << <<3609, 3657, 3635, 3648, 3591, 3636, 3609>>,
                       <<3609, 3635, 3648, 3591, 3636, 3609>>,
                       <<3609, 3657, 3634, 3648, 3591, 3636, 3609>>,
                       <<3626, 3637, 3609, 3657, 3635, 3648, 3591, 3636, 3609>> >>],
       [line_key |-> "purple",   \* 'ม่วง' 'มวง' 'สีม่วง'
        keywords |-> << <<3617, 3656, 3623, 3591>>,
                       <<3617, 3623, 3591>>,
                       <<3626, 3637, 3617, 3656, 3623, 3591>> >>],
       [line_key |-> "pink",   \* 'ชมพู' 'ชมพูู' 'ชมพุ' 'สีชมพู'
        keywords |-> << <<3594, 3617, 3614, 3641>>,
                       <<3594, 3617, 3614, 3641, 3641>>,
                       <<3594, 3617, 3614, 3640>>,
                       <<3626, 3637, 3594, 3617, 3614, 3641>> >>],
       [line_key |-> "red",   \* 'แดง' 'แดง' 'สีแดง' 'ชานเมือง'
        keywords |-> << <<3649, 3604, 3591>>,
                       <<3649, 3604, 3591>>,
                       <<3626, 3637, 3649, 3604, 3591>>,
                       <<3594, 3634, 3609, 3648, 3617, 3639, 3629, 3591>> >>],
       [line_key |-> "yellow",   \* 'เหลือง' 'เหลืง' 'สีเหลือง'
        keywords |-> << <<3648, 3627, 3621, 3639, 3629, 3591>>,
                       <<3648, 3627, 3621, 3639, 3591>>,
                       <<3626, 3637, 3648, 3627, 3621, 3639, 3629, 3591>> >>] >>

\* vehicle_mapping, in the order of the dict: label text and target column.
vehicle_mapping ==
    << [vehicle_name |-> <<3619, 3606, 3652, 3615, 3615, 3657, 3634, 32, 65, 82, 76>>,   \* 'รถไฟฟ้า ARL'
        target_col |-> "arl"],
       [vehicle_name |-> <<3619, 3606, 3652, 3615, 3615, 3657, 3634, 32, 66, 84, 83>>,   \* 'รถไฟฟ้า BTS'
        target_col |-> "bts"],
       [vehicle_name |-> <<3619, 3606, 3652, 3615, 3615, 3657, 3634, 3626, 3634, 3618, 3626, 3637, 3609, 3657, 3635, 3648, 3591, 3636, 3609>>,   \* 'รถไฟฟ้าสายสีน้ำเงิน'
        target_col |-> "mrt_blue"],
       [vehicle_name |-> <<3619, 3606, 3652, 3615, 3615, 3657, 3634, 3626, 3634, 3618, 3626, 3637, 3617, 3656, 3623, 3591>>,   \* 'รถไฟฟ้าสายสีม่วง'
        target_col |-> "mrt_purple"],
       [vehicle_name |-> <<3619, 3606, 3652, 3615, 3615, 3657, 3634, 3626, 3634, 3618, 3626, 3637, 3594, 3617, 3614, 3641>>,   \* 'รถไฟฟ้าสายสีชมพู'
        target_col |-> "mrt_pink"],
       [vehicle_name |-> <<3619, 3606, 3652, 3615, 3615, 3657, 3634, 3626, 3634, 3618, 3626, 3637, 3649, 3604, 3591>>,   \* 'รถไฟฟ้าสายสีแดง'
        target_col |-> "srt_red"],
       [vehicle_name |-> <<3619, 3606, 3652, 3615, 3615, 3657, 3634, 3626, 3634, 3618, 3626, 3637, 3648, 3627, 3621, 3639, 3629, 3591>>,   \* 'รถไฟฟ้าสายสีเหลือง'
        target_col |-> "mrt_yellow"] >>

\* The first vehicle_mapping entry whose vehicle_name is in pivot_col: its
\* index, or 0 when the inner loop ends without a break.
MappingOf(pivot_col) ==
    LET hits == {i \in 1..Len(vehicle_mapping) :
                    Contains(pivot_col, vehicle_mapping[i].vehicle_name)}
    IN IF hits = {} THEN 0 ELSE CHOOSE i \in hits : \A j \in hits : i <= j

\* pd.to_numeric(errors='coerce').fillna(0) on a record's count.
PassengerCount(r) == IF r.count = <<>> THEN 0 ELSE r.count[1]

\* aggfunc='sum' over records[1..n] for one index value (the parsed
\* timestamp) and one label.
RECURSIVE PivotSum(_, _, _, _)
PivotSum(records, n, ts, label) ==
    IF n = 0 THEN 0
    ELSE PivotSum(records, n - 1, ts, label)
         + (IF records[n].date = ts /\ records[n].label = label
            THEN PassengerCount(records[n]) ELSE 0)

\* The inner merge loop over matching_cols[2..n]: pivot_df[main_col] +=
\* pivot_df[other_col], then the other column is dropped.  A column that an
\* earlier merge dropped is no longer in pivot_df: the lookup raises KeyError.
RECURSIVE MergeOthers(_, _, _)
MergeOthers(pivot, matching_cols, n) ==
    IF n <= 1 THEN pivot
    ELSE LET prev == MergeOthers(pivot, matching_cols, n - 1)
             main_col == matching_cols[1]
             other_col == matching_cols[n]
         IN IF prev.raised THEN prev
            ELSE IF main_col \notin prev.cols \/ other_col \notin prev.cols
            THEN [prev EXCEPT !.raised = TRUE]
            ELSE [cols |-> prev.cols \ {other_col},
                  val |-> [prev.val EXCEPT ![main_col] =
                              [d \in DOMAIN prev.val[main_col] |->
                                  prev.val[main_col][d] + prev.val[other_col][d]]],
                  raised |-> FALSE]

\* The loop over line_groups[1..g].  matching_cols is taken from
\* pivot_columns, the list built BEFORE the loop (line 128), whatever the
\* merges of earlier groups dropped.
RECURSIVE MergeGroups(_, _, _)
MergeGroups(pivot, pivot_columns, g) ==
    IF g = 0 THEN pivot
    ELSE LET prev == MergeGroups(pivot, pivot_columns, g - 1)
             keywords == line_groups[g].keywords
             matching_cols ==
                 SelectSeq(pivot_columns,
                           LAMBDA col : \E k \in 1..Len(keywords) :
                                            Contains(col, keywords[k]))
         IN IF prev.raised THEN prev
            ELSE MergeOthers(prev, matching_cols, Len(matching_cols))

\* The time of day of a parsed timestamp (0 at midnight).
TimeOfDay(ts) == IF Len(ts) = 1 THEN 0 ELSE ts[2]

\* process_mot_data(records).  A raw record has
\*   date  : what pd.to_datetime makes of the field: <<ord>> for a day at
\*           midnight, <<ord, t>> for a day with a time of day t > 0, or <<>>
\*           when the field is missing or does not parse,
\*   label : the vehicle label, or <<>> when it is missing,
\*   count : <<n>>, or <<>> when the field is missing or not a number.
\* The result: raised (an exception left the function), and df, the rows in
\* feature_date order (<<>> also stands for the None it returns).
process_mot_data(records) ==
    LET valid == SelectSeq(records, LAMBDA r : r.date # <<>>)
        \* pivot_table drops the rows whose column key is NaN
        cells == SelectSeq(valid, LAMBDA r : r.label # <<>>)
        \* the index of the pivot table: the distinct timestamps
        dates == {cells[i].date : i \in 1..Len(cells)}
        labels == {cells[i].label : i \in 1..Len(cells)}
        pivot_columns == SortSeq(SetToSeq(labels), LexLess)
        pivot_df == [cols |-> labels,
                     val |-> [l \in labels |->
                                [d \in dates |-> PivotSum(cells, Len(cells), d, l)]],
                     raised |-> FALSE]
        merged == MergeGroups(pivot_df, pivot_columns, Len(line_groups))
        after == SelectSeq(pivot_columns, LAMBDA col : col \in merged.cols)
        \* the last pivot column (in column order) mapped to target_col
        \* is the one whose value stays in the record
        line(d, target_col) ==
            LET hits == {i \in 1..Len(after) :
                            /\ MappingOf(after[i]) # 0
                            /\ vehicle_mapping[MappingOf(after[i])].target_col = target_col}
            IN IF hits = {} THEN <<0>>
               ELSE <<merged.val[after[CHOOSE i \in hits : \A j \in hits : j <= i]][d]>>
        \* record_date = row['วันที่'].date()
        record(ts) ==
            [c \in RowColumns \cup {"feature_date"} |->
                IF c = "feature_date" THEN ts[1]
                ELSE IF c = "day_type" THEN -1
                ELSE IF c = "dow" THEN Weekday(ts[1])
                ELSE IF c = "rain_average" THEN <<>>
                ELSE line(ts, c)]
        \* the pivot rows come in index order, and the sort by feature_date
        \* keeps the rows of one day in that order
        order == SortSeq(SetToSeq(dates),
                         LAMBDA a, b : \/ a[1] < b[1]
                                       \/ a[1] = b[1] /\ TimeOfDay(a) < TimeOfDay(b))
    IN IF Len(records) = 0 \/ Len(valid) = 0
       THEN [raised |-> FALSE, df |-> <<>>]
       \* no cell at all: result_df has no feature_date column to sort by
       ELSE IF Len(cells) = 0 \/ merged.raised
       THEN [raised |-> TRUE, df |-> <<>>]
       ELSE [raised |-> FALSE, df |-> [i \in 1..Len(order) |-> record(order[i])]]

(***************************************************************************)
(* The three collection scripts, as the DAG's SparkSubmit tasks run them:  *)
(* main() of mot_collecting_fucntional.py, rain_collecting.py and          *)
(* day_type_collecting.py.  Each returns the table it leaves and ok, the   *)
(* truth of main()'s return value (the script exits 0 iff ok).             *)
(* db_fault names the database call that raises in this run of the script: *)
(* "none", "read" (the SELECT) or "write" (the INSERT / UPDATE).           *)
(***************************************************************************)
\* A finite set of dates in increasing order (ORDER BY feature_date).
DatesInOrder(S) == SortSeq(SetToSeq(S), LAMBDA a, b : a < b)

RECURSIVE MaxOf(_)
MaxOf(S) ==
    LET x == CHOOSE y \in S : TRUE
    IN IF S = {x} THEN x
       ELSE LET m == MaxOf(S \ {x}) IN IF x > m THEN x ELSE m

\* get_latest_date_from_db reading SELECT MIN(feature_date) instead of MAX.
GetEarliestDateFromDb(db, db_up) ==
    IF ~db_up \/ DOMAIN db = {} THEN <<>>
    ELSE <<CHOOSE d \in DOMAIN db : \A e \in DOMAIN db : d <= e>>

\* SELECT MAX(feature_date) FROM features: <<>> is None (no row, or an error).
get_latest_date_from_db(db, db_up) ==
    IF ~db_up \/ DOMAIN db = {} THEN <<>> ELSE <<MaxOf(DOMAIN db)>>

\* months_to_query of main(): the month of the latest stored date and the
\* current month, as <<year, month>>, sorted.
MonthsToQuery(latest_date, now) ==
    LET latest == <<YearOf(latest_date), MonthOf(latest_date)>>
        current == <<YearOf(now), MonthOf(now)>>
    IN IF latest = current THEN <<current>>
       ELSE IF latest[1] < current[1] \/ (latest[1] = current[1] /\ latest[2] < current[2])
       THEN <<latest, current>>
       ELSE <<current, latest>>

\* One datastore_search request, q = 'YYYY-MM', against the published
\* records api.records; api.up = FALSE makes every request raise.  The
\* search returns the records whose date lies in the month.
FetchMonth(api, ym) ==
    IF ~api.up THEN <<>>
    ELSE SelectSeq(api.records,
                   LAMBDA r : /\ r.date # <<>>
                              /\ YearOf(r.date[1]) = ym[1]
                              /\ MonthOf(r.date[1]) = ym[2])

\* The records of every month of the query plan, in plan order.
RECURSIVE FetchAll(_, _, _)
FetchAll(api, months, n) ==
    IF n = 0 THEN <<>>
    ELSE FetchAll(api, months, n - 1) \o FetchMonth(api, months[n])

\* filter_new_records keeping the records of the latest stored date as well.
FilterNewRecordsInclusive(records, since_date) ==
    SelectSeq(records, LAMBDA r : r.date # <<>> /\ r.date[1] >= since_date)

\* filter_new_records(records, since_date)
filter_new_records(records, since_date) ==
    SelectSeq(records, LAMBDA r : r.date # <<>> /\ r.date[1] > since_date)

\* main() of the transit collector.  raised: an exception left main() (the
\* script dies with a traceback; ok is FALSE as well).
mot_main(db, now, api, db_fault) ==
    LET latest == get_latest_date_from_db(db, db_fault # "read")
        months == MonthsToQuery(latest[1], now)
        all_records == FetchAll(api, months, Len(months))
        new_records == filter_new_records(all_records, latest[1])
        p == process_mot_data(new_records)
        w == insert_new_data(db, p.df, db_fault # "write")
    IN IF latest = <<>> THEN [db |-> db, ok |-> FALSE, raised |-> FALSE]
       ELSE IF Len(all_records) = 0 THEN [db |-> db, ok |-> FALSE, raised |-> FALSE]
       ELSE IF Len(new_records) = 0 THEN [db |-> db, ok |-> TRUE, raised |-> FALSE]
       ELSE IF p.raised THEN [db |-> db, ok |-> FALSE, raised |-> TRUE]
       ELSE IF Len(p.df) = 0 THEN [db |-> db, ok |-> FALSE, raised |-> FALSE]
       ELSE [db |-> w.db, ok |-> w.ok, raised |-> FALSE]

\* SELECT feature_date FROM features WHERE rain_average IS NULL ORDER BY
\* feature_date; [] on an error.
get_null_rain_dates_from_db(db, db_up) ==
    IF ~db_up THEN <<>>
    ELSE DatesInOrder({d \in DOMAIN db : db[d]["rain_average"] = <<>>})

RECURSIVE Gcd(_, _)
Gcd(a, b) == IF b = 0 THEN a ELSE Gcd(b, a % b)

\* The fraction num / den (den > 0, num >= 0) in lowest terms.
Fraction(num, den) ==
    LET g == Gcd(num, den) IN <<num \div g, den \div g>>

\* fetch_rain_data_for_dates with a grid point whose request raised entered
\* into the mean as a reading of 0.
FetchRainFailedPointAsZero(dates, points) ==
    LET answered == {i \in 1..Len(points) : points[i] # <<>>}
        total == SumOver(answered, [i \in answered |-> points[i][1]])
    IN IF Len(dates) = 0 THEN <<>>
       ELSE [k \in 1..Len(dates) |->
                [date |-> dates[k],
                 rain_average |-> Fraction(total, Len(points))]]

\* fetch_rain_data_for_dates(dates, client).  points is the answer of each
\* grid point: <<>> when its request raised (the point is skipped), else
\* <<v>>, the rain_sum it reports for each day asked.  The result is the
\* daily mean over the points that answered, for the dates asked, in date
\* order; <<>> is None.
fetch_rain_data_for_dates(dates, points) ==
    LET answered == {i \in 1..Len(points) : points[i] # <<>>}
        total == SumOver(answered, [i \in answered |-> points[i][1]])
    IN IF Len(dates) = 0 \/ answered = {} THEN <<>>
       ELSE [k \in 1..Len(dates) |->
                [date |-> dates[k],
                 rain_average |-> Fraction(total, Cardinality(answered))]]

\* main() of the rain collector; client_up = FALSE: setup_openmeteo_client raised.
rain_main(db, points, client_up, db_fault) ==
    LET null_rain_dates == get_null_rain_dates_from_db(db, db_fault # "read")
        rain_data == fetch_rain_data_for_dates(null_rain_dates, points)
        w == update_rain_average_in_db(db, rain_data, db_fault # "write")
    IN IF Len(null_rain_dates) = 0 THEN [db |-> db, ok |-> TRUE]
       ELSE IF ~client_up THEN [db |-> db, ok |-> FALSE]
       ELSE IF Len(rain_data) = 0 THEN [db |-> db, ok |-> FALSE]
       ELSE [db |-> w.db, ok |-> w.ok]

\* SELECT feature_date FROM features WHERE day_type = -1 ORDER BY
\* feature_date; [] on an error.
get_day_type_null_dates_from_db(db, db_up) ==
    IF ~db_up THEN <<>>
    ELSE DatesInOrder({d \in DOMAIN db : db[d]["day_type"] = -1})

\* main() of the day-type collector.  holiday_df is what
\* download_holiday_calendar returned (the empty frame when it failed).
day_type_main(db, holiday_df, db_fault) ==
    LET null_day_type_dates == get_day_type_null_dates_from_db(db, db_fault # "read")
        dates == {null_day_type_dates[i] : i \in 1..Len(null_day_type_dates)}
        classified == classify_day_types(dates, holiday_df)
        day_type_data ==
            [i \in 1..Len(null_day_type_dates) |->
                [feature_date |-> null_day_type_dates[i],
                 day_type |-> classified[null_day_type_dates[i]]]]
        w == update_day_type_in_db(db, day_type_data, db_fault # "write")
    IN IF Len(null_day_type_dates) = 0 THEN [db |-> db, ok |-> TRUE]
       ELSE IF Len(day_type_data) = 0 THEN [db |-> db, ok |-> FALSE]
       ELSE [db |-> w.db, ok |-> w.ok]

(***************************************************************************)
(* The quality checks ("weekly_data_collecting copy.py":98-408).           *)
(* Each takes the table, CURRENT_DATE and err, the place where a query     *)
(* raised: "none", "first" (the first query: nothing is filled in yet) or  *)
(* "late" (the last query: what the earlier queries returned is filled     *)
(* in).  Either way the except branch sets status FAIL and the score, which*)
(* is computed after every query, is still 0.0.                            *)
(***************************************************************************)
\* INTERVAL '7 days'
WindowDays == 7

\* WHERE feature_date >= CURRENT_DATE - INTERVAL '7 days'
Window(db, now) == {d \in DOMAIN db : d >= now - WindowDays}

anomaly_thresholds ==
    [c \in LineColumns |->
        IF c = "bts" THEN 2000000
        ELSE IF c = "mrt_blue" THEN 1500000
        ELSE IF c = "mrt_purple" THEN 800000
        ELSE IF c = "arl" THEN 200000
        ELSE IF c = "srt_red" THEN 300000
        ELSE IF c = "mrt_yellow" THEN 500000
        ELSE 400000]

\* The comparison with 0.75 in place of 0.8.
ScoreBelowThreeQuarters(score) == 4 * score[1] < 3 * score[2]

\* A fraction <<num, den>> (den > 0) compared with 0.8.
ScoreBelowThreshold(score) == 5 * score[1] < 4 * score[2]

\* The issues recorded for one column: <<date, "NULL">> and <<date, "ZERO">>.
MissingIssues(db, now, column) ==
    {<<d, "NULL">> : d \in {e \in Window(db, now) : db[e][column] = <<>>}}
    \cup {<<d, "ZERO">> : d \in {e \in Window(db, now) : db[e][column] = <<0>>}}

\* The anomalies recorded for one column: <<column, date, value>>.
MotAnomalies(db, now, column) ==
    {<<column, d, db[d][column][1]>> :
        d \in {e \in Window(db, now) :
                 /\ db[e][column] # <<>>
                 /\ \/ db[e][column][1] > anomaly_thresholds[column]
                    \/ db[e][column][1] < 0}}

\* The status rule with the elif testing the anomalies only.
MotStatusAnomaliesOnly(score, anomalies, total_missing) ==
    IF ScoreBelowThreshold(score) THEN "FAIL"
    ELSE IF anomalies # {} THEN "WARNING"
    ELSE "PASS"

\* if score < 0.8: FAIL / elif anomalies or total_missing > 0: WARNING
MotStatus(score, anomalies, total_missing) ==
    IF ScoreBelowThreshold(score) THEN "FAIL"
    ELSE IF anomalies # {} \/ total_missing > 0 THEN "WARNING"
    ELSE "PASS"

\* The score without the max(0, ...).
QualityScoreUnclamped(total_expected_records, total_missing) ==
    <<total_expected_records - total_missing, total_expected_records>>

\* max(0, (total_expected_records - total_missing) / total_expected_records)
QualityScore(total_expected_records, total_missing) ==
    LET left == total_expected_records - total_missing
    IN <<IF left > 0 THEN left ELSE 0, total_expected_records>>

\* check_mot_data_quality: the quality_check dict it pushes.
check_mot_data_quality(db, now, err) ==
    LET records_processed == Cardinality(Window(db, now))
        missing_data == [c \in LineColumns |-> MissingIssues(db, now, c)]
        anomalies == UNION {MotAnomalies(db, now, c) : c \in LineColumns}
        total_expected_records == 7 * Len(transport_columns)
        total_missing ==
            SumOver(LineColumns, [c \in LineColumns |-> Cardinality(missing_data[c])])
        quality_score == QualityScore(total_expected_records, total_missing)
        empty == [c \in LineColumns |-> {}]
    IN IF err = "first"
       THEN [task |-> "mot_quality_check", records_processed |-> 0,
             missing_data |-> empty, anomalies |-> {},
             quality_score |-> <<0, 1>>, status |-> "FAIL", error |-> TRUE]
       ELSE IF err = "late"
       THEN [task |-> "mot_quality_check", records_processed |-> records_processed,
             missing_data |-> missing_data,
             anomalies |-> anomalies \ MotAnomalies(db, now, "mrt_yellow"),
             quality_score |-> <<0, 1>>, status |-> "FAIL", error |-> TRUE]
       ELSE [task |-> "mot_quality_check", records_processed |-> records_processed,
             missing_data |-> missing_data, anomalies |-> anomalies,
             quality_score |-> quality_score,
             status |-> MotStatus(quality_score, anomalies, total_missing),
             error |-> FALSE]

\* total_records = mot_result.get("records_processed", 0) if mot_result else 7
TotalRecords(mot_result) ==
    IF mot_result = <<>> THEN 7 ELSE mot_result[1].records_processed

\* The coverage ratio with an empty total counted as full coverage.
CoverageScoreEmptyIsFull(records_processed, total_records) ==
    IF total_records > 0 THEN <<records_processed, total_records>> ELSE <<1, 1>>

\* quality_score = records_processed / total_records if total_records > 0,
\* else the initial 0.0.
CoverageScore(records_processed, total_records) ==
    IF total_records > 0 THEN <<records_processed, total_records>> ELSE <<0, 1>>

\* rain_average < 0 OR rain_average > 200, on a fraction.
RainOutOfRange(ra) == ra[1] < 0 \/ ra[1] > 200 * ra[2]

\* check_rain_data_quality: the quality_check dict it pushes.
check_rain_data_quality(db, now, mot_result, err) ==
    LET w == Window(db, now)
        null_rain_remaining == Cardinality({d \in w : db[d]["rain_average"] = <<>>})
        records_processed == Cardinality({d \in w : db[d]["rain_average"] # <<>>})
        anomalies ==
            {<<d, db[d]["rain_average"]>> :
                d \in {e \in w : /\ db[e]["rain_average"] # <<>>
                                 /\ RainOutOfRange(db[e]["rain_average"])}}
        quality_score == CoverageScore(records_processed, TotalRecords(mot_result))
        status == IF ScoreBelowThreshold(quality_score) THEN "FAIL"
                  ELSE IF null_rain_remaining > 0 THEN "WARNING"
                  ELSE "PASS"
    IN IF err = "first"
       THEN [task |-> "rain_quality_check", records_processed |-> 0,
             null_rain_remaining |-> 0, anomalies |-> {},
             quality_score |-> <<0, 1>>, status |-> "FAIL", error |-> TRUE]
       ELSE IF err = "late"
       THEN [task |-> "rain_quality_check", records_processed |-> records_processed,
             null_rain_remaining |-> null_rain_remaining, anomalies |-> {},
             quality_score |-> <<0, 1>>, status |-> "FAIL", error |-> TRUE]
       ELSE [task |-> "rain_quality_check", records_processed |-> records_processed,
             null_rain_remaining |-> null_rain_remaining, anomalies |-> anomalies,
             quality_score |-> quality_score, status |-> status, error |-> FALSE]

\* check_day_type_data_quality: the quality_check dict it pushes.
check_day_type_data_quality(db, now, mot_result, err) ==
    LET w == Window(db, now)
        pending_day_type_remaining == Cardinality({d \in w : db[d]["day_type"] = -1})
        records_processed == Cardinality({d \in w : db[d]["day_type"] # -1})
        \* AND dow IN (6, 0) AND day_type NOT IN (1, 2)
        classification_errors ==
            {<<d, db[d]["day_type"], db[d]["dow"]>> :
                d \in {e \in w : /\ db[e]["dow"] \in {6, 0}
                                 /\ db[e]["day_type"] \notin {1, 2}}}
        quality_score == CoverageScore(records_processed, TotalRecords(mot_result))
        status == IF ScoreBelowThreshold(quality_score) THEN "FAIL"
                  ELSE IF classification_errors # {} \/ pending_day_type_remaining > 0
                  THEN "WARNING"
                  ELSE "PASS"
    IN IF err = "first"
       THEN [task |-> "day_type_quality_check", records_processed |-> 0,
             pending_day_type_remaining |-> 0, classification_errors |-> {},
             quality_score |-> <<0, 1>>, status |-> "FAIL", error |-> TRUE]
       ELSE IF err = "late"
       THEN [task |-> "day_type_quality_check", records_processed |-> records_processed,
             pending_day_type_remaining |-> pending_day_type_remaining,
             classification_errors |-> {},
             quality_score |-> <<0, 1>>, status |-> "FAIL", error |-> TRUE]
       ELSE [task |-> "day_type_quality_check", records_processed |-> records_processed,
             pending_day_type_remaining |-> pending_day_type_remaining,
             classification_errors |-> classification_errors,
             quality_score |-> quality_score, status |-> status, error |-> FALSE]

(***************************************************************************)
(* The final report ("weekly_data_collecting copy.py":411-461).            *)
(***************************************************************************)
XComKeys ==
    {"mot_quality_result", "rain_quality_result", "day_type_quality_result",
     "final_report"}

NoXCom == [k \in XComKeys |-> <<>>]

\* result.get("status", "UNKNOWN") if result else "UNKNOWN"
StatusOrUnknown(result) == IF result = <<>> THEN "UNKNOWN" ELSE result[1].status

\* The overall status with the two tests in the other order (WARNING
\* looked for before FAIL).
OverallStatusWarningFirst(statuses) ==
    IF "WARNING" \in statuses THEN "WARNING"
    ELSE IF "FAIL" \in statuses THEN "FAIL"
    ELSE "PASS"

\* if "FAIL" in statuses: FAIL / elif "WARNING" in statuses: WARNING / else
\* the initial "PASS".
OverallStatus(statuses) ==
    IF "FAIL" \in statuses THEN "FAIL"
    ELSE IF "WARNING" \in statuses THEN "WARNING"
    ELSE "PASS"

\* generate_final_report: the final_report it pushes, from the XComs it pulls.
generate_final_report(x) ==
    LET mot_result      == x["mot_quality_result"]
        rain_result     == x["rain_quality_result"]
        day_type_result == x["day_type_quality_result"]
        statuses == { StatusOrUnknown(mot_result), StatusOrUnknown(rain_result),
                      StatusOrUnknown(day_type_result) }
    IN [overall_status |-> OverallStatus(statuses),
        stages |-> [mot |-> mot_result, rain |-> rain_result,
                    day_type |-> day_type_result]]

(***************************************************************************)
(* Function calls.                                                         *)
(***************************************************************************)
\* No call (the specifications that make none keep call at this value).
Idle == [fn |-> "idle", args |-> <<>>, runs |-> 0, ret |-> <<>>]

\* A call of fn on args that has not run yet, and its state once it ran
\* (once more) and returned ret.
Pending(fn, args) == [fn |-> fn, args |-> args, runs |-> 0, ret |-> <<>>]

Returned(c, ret) == [c EXCEPT !.runs = c.runs + 1, !.ret = ret]

(***************************************************************************)
(* SpecCalendar: get_second_saturday called on every year and month of the *)
(* bounded range, and get_festival_dates on every year.                    *)
(***************************************************************************)
InitCalendar ==
    /\ store = <<>>
    /\ today = 0
    /\ ti = <<>>
    /\ xcom = <<>>
    /\ \/ \E year \in Years, month \in 1..12 :
             call = Pending("get_second_saturday", <<year, month>>)
       \/ \E year \in Years :
             call = Pending("get_festival_dates", <<year>>)

CallGetSecondSaturday ==
    /\ call.fn = "get_second_saturday" /\ call.runs = 0
    /\ call' = Returned(call, get_second_saturday(call.args[1], call.args[2]))
    /\ UNCHANGED <<store, today, ti, xcom>>

CallGetFestivalDates ==
    /\ call.fn = "get_festival_dates" /\ call.runs = 0
    /\ call' = Returned(call, get_festival_dates(call.args[1]))
    /\ UNCHANGED <<store, today, ti, xcom>>

NextCalendar == CallGetSecondSaturday \/ CallGetFestivalDates

SpecCalendar == InitCalendar /\ [][NextCalendar]_vars

\* The Saturdays of a month, by conventional calendar semantics.
SaturdaysOf(year, month) ==
    {d \in 1..DaysInMonth(year, month) : Weekday(ToOrdinal(year, month, d)) = SATURDAY}

\* C10: for every year and month, get_second_saturday returns the second
\* Saturday of the month: the unique Saturday whose day-of-month is in 8..14,
\* also when the first (Monday-first) calendar week holds no Saturday.
C10_SecondSaturdayIsConventional ==
    (call.fn = "get_second_saturday" /\ call.runs = 1) =>
        LET year == call.args[1]
            month == call.args[2]
        IN /\ call.ret[1] = year
           /\ call.ret[2] = month
           /\ call.ret[3] \in SaturdaysOf(year, month)
           /\ call.ret[3] \in 8..14

\* C11: get_second_saturday(2025, 1) returns 2025-01-11 (January 2025 starts
\* on a Wednesday), and get_festival_dates(2025) holds that date.
C11_SecondSaturdayOfJanuary2025 ==
    /\ (call.fn = "get_second_saturday" /\ call.runs = 1 /\ call.args = <<2025, 1>>) =>
           /\ Weekday(ToOrdinal(2025, 1, 1)) = 2
           /\ call.ret = <<2025, 1, 11>>
    /\ (call.fn = "get_festival_dates" /\ call.runs = 1 /\ call.args = <<2025>>) =>
           <<2025, 1, 11>> \in call.ret

\* Witness of C11: get_second_saturday(2025, 1) has returned 2025-01-11.
C11_Witness ==
    /\ call.fn = "get_second_saturday" /\ call.runs = 1
    /\ call.args = <<2025, 1>>
    /\ call.ret = <<2025, 1, 11>>

(***************************************************************************)
(* SpecClassify: classify_day_types called on every set of dates and every *)
(* holiday calendar drawn from a few dates around festivals and weekends.  *)
(***************************************************************************)
ClassifyDates ==
    { ToOrdinal(2025, 1, 11),   \* Saturday, second Saturday of January 2025
      ToOrdinal(2025, 1, 12),   \* Sunday
      ToOrdinal(2025, 1, 13),   \* Monday
      ToOrdinal(2025, 4, 14),   \* Songkran
      ToOrdinal(2023, 1, 7) }   \* Saturday, first Saturday of January 2023

HolidayRows ==
    { [enc |-> "compact", y |-> 2025, m |-> 4, d |-> 14],
      [enc |-> "dashed",  y |-> 2025, m |-> 1, d |-> 11],
      [enc |-> "dashed",  y |-> 2025, m |-> 1, d |-> 12],
      [enc |-> "dashed8", y |-> 2025, m |-> 1, d |-> 13],
      [enc |-> "compact", y |-> 2025, m |-> 2, d |-> 30],
      [enc |-> "other",   y |-> 2023, m |-> 1, d |-> 7] }

InitClassify ==
    /\ store = <<>>
    /\ today = 0
    /\ ti = <<>>
    /\ xcom = <<>>
    /\ \E dates \in SUBSET ClassifyDates, holiday_df \in SUBSET HolidayRows :
          call = Pending("classify_day_types", <<dates, holiday_df>>)

CallClassifyDayTypes ==
    /\ call.fn = "classify_day_types" /\ call.runs = 0
    /\ call' = Returned(call, classify_day_types(call.args[1], call.args[2]))
    /\ UNCHANGED <<store, today, ti, xcom>>

NextClassify == CallClassifyDayTypes

SpecClassify == InitClassify /\ [][NextClassify]_vars

\* C9: a date that is both in the holiday set and in the festival set is
\* classified Holiday (0), never Festival (2).
C9_HolidayBeatsFestival ==
    (call.fn = "classify_day_types" /\ call.runs = 1) =>
        LET dates == call.args[1]
            H == HolidayDates(call.args[2])
            F == FestivalDates(dates)
        IN \A d \in dates :
              (DateStr(d) \in H /\ DateStr(d) \in F) => call.ret[d] = 0

\* Witness of C9: a call in which some date is both a holiday and a festival.
C9_Witness ==
    /\ call.fn = "classify_day_types" /\ call.runs = 1
    /\ \E d \in call.args[1] :
          /\ DateStr(d) \in HolidayDates(call.args[2])
          /\ DateStr(d) \in FestivalDates(call.args[1])
          /\ call.ret[d] = 0

\* C21: the classifier gives every date exactly one of 0, 1, 2: a date in
\* neither the holiday set nor the festival set gets Normal (1), also on a
\* Saturday or Sunday; a date in the festival set and not in the holiday set
\* gets Festival (2); no date gets -1 or any other integer.
C21_EveryDateOneOfThreeTypes ==
    (call.fn = "classify_day_types" /\ call.runs = 1) =>
        LET dates == call.args[1]
            H == HolidayDates(call.args[2])
            F == FestivalDates(dates)
        IN /\ DOMAIN call.ret = dates
           /\ \A d \in dates :
                 /\ call.ret[d] \in {0, 1, 2}
                 /\ (DateStr(d) \notin H /\ DateStr(d) \notin F) => call.ret[d] = 1
                 /\ (DateStr(d) \in F /\ DateStr(d) \notin H) => call.ret[d] = 2

\* Witness of C21: a Sunday in neither set classified Normal next to a
\* festival Saturday classified Festival.
C21_Witness ==
    /\ call.fn = "classify_day_types" /\ call.runs = 1
    /\ \E d, e \in call.args[1] :
          /\ Weekday(d) = 6
          /\ DateStr(d) \notin HolidayDates(call.args[2])
          /\ DateStr(d) \notin FestivalDates(call.args[1])
          /\ call.ret[d] = 1
          /\ DateStr(e) \in FestivalDates(call.args[1])
          /\ DateStr(e) \notin HolidayDates(call.args[2])
          /\ call.ret[e] = 2

(***************************************************************************)
(* SpecStore: each writer of the features table called on every table and  *)
(* every batch of a bounded family, and then called once more on the same  *)
(* batch.                                                                  *)
(***************************************************************************)
MaxBatch == 2

StoreDates == {ToOrdinal(2025, 1, 11), ToOrdinal(2025, 1, 12)}

\* Lines with the first k columns of transport_columns at 0.0.
ZeroLines(k) ==
    [c \in LineColumns |->
        IF (CHOOSE i \in 1..Len(transport_columns) : transport_columns[i] = c) <= k
        THEN <<0>> ELSE <<100>>]

\* Two line profiles: every line with riders, and one with a line at zero.
LinesFull == [c \in LineColumns |-> <<100>>]

LinesGap == [c \in LineColumns |-> IF c = "bts" THEN <<0>> ELSE <<50>>]

\* The rows a table of the family holds for date d.
StoreRows(d) ==
    { MkRow(dt, Weekday(d), ra, LinesFull) : dt \in {-1, 1}, ra \in {<<>>, <<5, 1>>} }

\* The tables of the family: any subset of the dates, any such row for each.
StoreFamily ==
    UNION { {db \in [S -> UNION {StoreRows(d) : d \in S}] :
                \A d \in S : db[d] \in StoreRows(d)} : S \in SUBSET StoreDates }

\* Sequences over S of length at most n.
SeqUpTo(S, n) == UNION { [1..k -> S] : k \in 0..n }

\* The rows of a transit batch: what process_mot_data emits for a date
\* (day_type -1, rain_average None, dow the date's weekday).
InsertRows ==
    { [c \in RowColumns \cup {"feature_date"} |->
          IF c = "feature_date" THEN d ELSE MkRow(-1, Weekday(d), <<>>, lines)[c]] :
        d \in StoreDates, lines \in {LinesFull, LinesGap} }

RainRows == [date : StoreDates, rain_average : {<<3, 1>>, <<9, 2>>}]

DayTypeRows == [feature_date : StoreDates, day_type : {-1, 0, 2}]

StoreCalls ==
    { Pending("insert_new_data", <<df, up>>) :
          df \in SeqUpTo(InsertRows, MaxBatch), up \in BOOLEAN }
    \cup { Pending("update_rain_average_in_db", <<rd, up>>) :
          rd \in SeqUpTo(RainRows, MaxBatch), up \in BOOLEAN }
    \cup { Pending("update_day_type_in_db", <<dd, up>>) :
          dd \in SeqUpTo(DayTypeRows, MaxBatch), up \in BOOLEAN }

InitStore ==
    /\ store \in StoreFamily
    /\ today = 0
    /\ ti = <<>>
    /\ xcom = <<>>
    /\ call \in StoreCalls

\* The writer named by the call, run on the table db.
RunWriter(c, db) ==
    IF c.fn = "insert_new_data" THEN insert_new_data(db, c.args[1], c.args[2])
    ELSE IF c.fn = "update_rain_average_in_db"
    THEN update_rain_average_in_db(db, c.args[1], c.args[2])
    ELSE update_day_type_in_db(db, c.args[1], c.args[2])

\* The call runs: the table is rewritten, and the call keeps the table it
\* found, the return value and the updated count it printed.
Apply(fn, n) ==
    /\ call.fn = fn /\ call.runs = n
    /\ LET r == RunWriter(call, store)
       IN /\ store' = r.db
          /\ call' = Returned(call, [before |-> store, ok |-> r.ok,
                                     updated_count |-> r.updated_count])
    /\ UNCHANGED <<today, ti, xcom>>

CallInsertNewData == Apply("insert_new_data", 0)

CallUpdateRainAverage == Apply("update_rain_average_in_db", 0)

CallUpdateDayType == Apply("update_day_type_in_db", 0)

\* The same call on the same batch, a second time in a row.
RepeatInsertNewData == Apply("insert_new_data", 1)

RepeatUpdateRainAverage == Apply("update_rain_average_in_db", 1)

RepeatUpdateDayType == Apply("update_day_type_in_db", 1)

NextStore ==
    \/ CallInsertNewData
    \/ CallUpdateRainAverage
    \/ CallUpdateDayType
    \/ RepeatInsertNewData
    \/ RepeatUpdateRainAverage
    \/ RepeatUpdateDayType

SpecStore == InitStore /\ [][NextStore]_vars

WriterFns == {"insert_new_data", "update_rain_average_in_db", "update_day_type_in_db"}

\* C5: each write operation is idempotent: applying the same batch a second
\* time in a row leaves the table as the first application left it.
C5_WritersIdempotent ==
    (call.fn \in WriterFns /\ call.runs = 2) => store = call.ret.before

\* Witness of C5: a second application of a batch whose first application
\* had changed the table, for a guarded update.
C5_Witness ==
    /\ call.fn = "update_day_type_in_db" /\ call.runs = 2
    /\ call.ret.ok
    /\ store = call.ret.before
    /\ \E i \in 1..Len(call.args[1]) :
          LET r == call.args[1][i]
          IN r.feature_date \in DOMAIN store /\ store[r.feature_date]["day_type"] = r.day_type
                /\ r.day_type # -1

\* C6 (as claimed): when insert_new_data is applied to a batch holding a
\* date that already has a row, that row's day_type and rain_average keep
\* the values they had before the upsert.
C6_UpsertKeepsDayTypeAndRain ==
    (call.fn = "insert_new_data" /\ call.runs = 1 /\ call.ret.ok) =>
        \A d \in BatchDates(call.args[1], "feature_date") \cap DOMAIN call.ret.before :
            /\ store[d]["day_type"] = call.ret.before[d]["day_type"]
            /\ store[d]["rain_average"] = call.ret.before[d]["rain_average"]

\* The rows of a batch for date d.
RowsFor(batch, key, d) == {i \in 1..Len(batch) : batch[i][key] = d}

\* C7: a day-type-only update of an existing row with day_type = -1 sets
\* day_type to the given value and leaves rain_average (unset or not), dow
\* and the seven line values of the row unchanged; every other row is
\* unchanged and no row appears or disappears.
C7_DayTypeOnlyUpdate ==
    (call.fn = "update_day_type_in_db" /\ call.runs = 1) =>
        LET before == call.ret.before
            batch  == call.args[1]
        IN /\ DOMAIN store = DOMAIN before
           /\ \A d \in DOMAIN before :
                 /\ \A c \in RowColumns \ {"day_type"} : store[d][c] = before[d][c]
                 /\ d \notin BatchDates(batch, "feature_date") => store[d] = before[d]
                 /\ \A i \in 1..Len(batch) :
                       ( /\ call.ret.ok
                         /\ RowsFor(batch, "feature_date", d) = {i}
                         /\ before[d]["day_type"] = -1 )
                       => store[d]["day_type"] = batch[i].day_type

\* Witness of C7: a row with day_type = -1 and rain_average unset received
\* Festival (2) and still has no rain_average.
C7_Witness ==
    /\ call.fn = "update_day_type_in_db" /\ call.runs = 1 /\ call.ret.ok
    /\ \E d \in DOMAIN call.ret.before :
          /\ call.ret.before[d]["day_type"] = -1
          /\ call.ret.before[d]["rain_average"] = <<>>
          /\ \E i \in 1..Len(call.args[1]) :
                /\ RowsFor(call.args[1], "feature_date", d) = {i}
                /\ call.args[1][i].day_type = 2
          /\ store[d]["day_type"] = 2
          /\ store[d]["rain_average"] = <<>>

\* The batch rows that pass the guard of the rain update, told from the
\* table before the call: the row's date has a row whose rain_average is
\* NULL and no earlier batch row of that date has filled it.
RainRowsPassing(before, batch) ==
    {i \in 1..Len(batch) :
        /\ batch[i].date \in DOMAIN before
        /\ before[batch[i].date]["rain_average"] = <<>>
        /\ \A j \in 1..(i - 1) : batch[j].date # batch[i].date}

\* The same for the day-type update: the date's row holds -1 and every
\* earlier batch row of that date wrote -1 again.
DayTypeRowsPassing(before, batch) ==
    {i \in 1..Len(batch) :
        /\ batch[i].feature_date \in DOMAIN before
        /\ before[batch[i].feature_date]["day_type"] = -1
        /\ \A j \in 1..(i - 1) :
              batch[j].feature_date = batch[i].feature_date => batch[j].day_type = -1}

\* C8: the guarded updates touch only placeholder rows: the rain update
\* changes rain_average only where it is NULL, the day-type update changes
\* day_type only where it is -1; a row whose field is filled is unchanged,
\* no row is inserted, and the updated count is the number of batch rows
\* that passed the guard.
C8_GuardedUpdates ==
    /\ (call.fn = "update_rain_average_in_db" /\ call.runs = 1) =>
          LET before == call.ret.before
          IN /\ DOMAIN store = DOMAIN before
             /\ \A d \in DOMAIN before :
                   /\ before[d]["rain_average"] # <<>> => store[d] = before[d]
                   /\ \A c \in RowColumns \ {"rain_average"} : store[d][c] = before[d][c]
             /\ call.ret.updated_count =
                   IF call.ret.ok
                   THEN Cardinality(RainRowsPassing(before, call.args[1]))
                   ELSE 0
    /\ (call.fn = "update_day_type_in_db" /\ call.runs = 1) =>
          LET before == call.ret.before
          IN /\ DOMAIN store = DOMAIN before
             /\ \A d \in DOMAIN before :
                   /\ before[d]["day_type"] # -1 => store[d] = before[d]
                   /\ \A c \in RowColumns \ {"day_type"} : store[d][c] = before[d][c]
             /\ call.ret.updated_count =
                   IF call.ret.ok
                   THEN Cardinality(DayTypeRowsPassing(before, call.args[1]))
                   ELSE 0

\* Witness of C8: a rain update whose batch held a row for a date already
\* filled (left as it was) and a row that passed the guard.
C8_Witness ==
    /\ call.fn = "update_rain_average_in_db" /\ call.runs = 1 /\ call.ret.ok
    /\ call.ret.updated_count = 1
    /\ \E i \in 1..Len(call.args[1]) :
          LET d == call.args[1][i].date
          IN /\ d \in DOMAIN call.ret.before
             /\ call.ret.before[d]["rain_average"] # <<>>
             /\ call.ret.before[d]["rain_average"] # call.args[1][i].rain_average
             /\ store[d] = call.ret.before[d]

(***************************************************************************)
(* SpecReport: generate_final_report called on every combination of stage  *)
(* results, present or absent.                                             *)
(***************************************************************************)
Verdicts == {"PASS", "WARNING", "FAIL"}

\* A stage result as far as the report reads it.
StageResults(task) ==
    {<<>>} \cup { <<[task |-> task, status |-> v]>> : v \in Verdicts }

InitReport ==
    /\ store = <<>>
    /\ today = 0
    /\ ti = <<>>
    /\ \E m \in StageResults("mot_quality_check"),
          r \in StageResults("rain_quality_check"),
          d \in StageResults("day_type_quality_check") :
          xcom = [NoXCom EXCEPT !["mot_quality_result"] = m,
                                !["rain_quality_result"] = r,
                                !["day_type_quality_result"] = d]
    /\ call = Pending("generate_final_report", <<>>)

CallGenerateFinalReport ==
    /\ call.fn = "generate_final_report" /\ call.runs = 0
    /\ xcom' = [xcom EXCEPT !["final_report"] = <<generate_final_report(xcom)>>]
    /\ call' = Returned(call, <<>>)
    /\ UNCHANGED <<store, today, ti>>

NextReport == CallGenerateFinalReport

SpecReport == InitReport /\ [][NextReport]_vars

\* The total order FAIL > WARNING > PASS.
VerdictRank(v) == IF v = "FAIL" THEN 2 ELSE IF v = "WARNING" THEN 1 ELSE 0

StageKeys == {"mot_quality_result", "rain_quality_result", "day_type_quality_result"}

\* C4: the overall_status of the final report is the worst of the stage
\* verdicts under FAIL > WARNING > PASS: FAIL if any stage is FAIL, else
\* WARNING if any stage is WARNING, else PASS.
C4_OverallIsWorstVerdict ==
    xcom["final_report"] # <<>> =>
        LET overall == xcom["final_report"][1].overall_status
            given   == {xcom[k][1].status : k \in {j \in StageKeys : xcom[j] # <<>>}}
        IN /\ overall \in Verdicts
           /\ \A v \in given : VerdictRank(v) <= VerdictRank(overall)
           /\ overall = "PASS" \/ overall \in given

\* Witness of C4: a report over a FAIL, a WARNING and a PASS stage is FAIL.
C4_Witness ==
    /\ xcom["final_report"] # <<>>
    /\ xcom["mot_quality_result"] # <<>> /\ xcom["mot_quality_result"][1].status = "PASS"
    /\ xcom["rain_quality_result"] # <<>> /\ xcom["rain_quality_result"][1].status = "WARNING"
    /\ xcom["day_type_quality_result"] # <<>>
    /\ xcom["day_type_quality_result"][1].status = "FAIL"
    /\ xcom["final_report"][1].overall_status = "FAIL"

(***************************************************************************)
(* The DAG weekly-mot-rain-data-collecting-v2                              *)
(* ("weekly_data_collecting copy.py":84-92, 468-669) and one run of it.    *)
(***************************************************************************)
Tasks ==
    {"start_weekly_data_collection", "collect_mot_transport_data",
     "mot_quality_check", "collect_rain_weather_data", "rain_quality_check",
     "collect_day_type_data", "day_type_quality_check",
     "final_quality_validation", "pipeline_success", "mot_quality_failed",
     "rain_quality_failed", "day_type_quality_failed",
     "end_weekly_data_collection"}

\* The wiring with rain_data_collection hung under mot_data_collection
\* (mot_data_collection >> rain_data_collection) instead of under the
\* transit quality check.
UpstreamRainUnderCollection(t) ==
    IF t = "start_weekly_data_collection" THEN {}
    ELSE IF t = "collect_mot_transport_data" THEN {"start_weekly_data_collection"}
    ELSE IF t = "mot_quality_check" THEN {"collect_mot_transport_data"}
    ELSE IF t = "collect_rain_weather_data" THEN {"collect_mot_transport_data"}
    ELSE IF t = "mot_quality_failed" THEN {"mot_quality_check"}
    ELSE IF t = "rain_quality_check" THEN {"collect_rain_weather_data"}
    ELSE IF t = "collect_day_type_data" THEN {"rain_quality_check"}
    ELSE IF t = "rain_quality_failed" THEN {"rain_quality_check"}
    ELSE IF t = "day_type_quality_check" THEN {"collect_day_type_data"}
    ELSE IF t = "final_quality_validation" THEN {"day_type_quality_check"}
    ELSE IF t = "day_type_quality_failed" THEN {"day_type_quality_check"}
    ELSE IF t = "pipeline_success" THEN {"final_quality_validation"}
    ELSE {"pipeline_success", "mot_quality_failed", "rain_quality_failed",
          "day_type_quality_failed"}

\* The task dependencies (the >> statements): the direct upstream tasks of t.
Upstream(t) ==
    IF t = "start_weekly_data_collection" THEN {}
    ELSE IF t = "collect_mot_transport_data" THEN {"start_weekly_data_collection"}
    ELSE IF t = "mot_quality_check" THEN {"collect_mot_transport_data"}
    ELSE IF t = "collect_rain_weather_data" THEN {"mot_quality_check"}
    ELSE IF t = "mot_quality_failed" THEN {"mot_quality_check"}
    ELSE IF t = "rain_quality_check" THEN {"collect_rain_weather_data"}
    ELSE IF t = "collect_day_type_data" THEN {"rain_quality_check"}
    ELSE IF t = "rain_quality_failed" THEN {"rain_quality_check"}
    ELSE IF t = "day_type_quality_check" THEN {"collect_day_type_data"}
    ELSE IF t = "final_quality_validation" THEN {"day_type_quality_check"}
    ELSE IF t = "day_type_quality_failed" THEN {"day_type_quality_check"}
    ELSE IF t = "pipeline_success" THEN {"final_quality_validation"}
    ELSE {"pipeline_success", "mot_quality_failed", "rain_quality_failed",
          "day_type_quality_failed"}

Downstream(t) == {u \in Tasks : t \in Upstream(u)}

\* Every task below t (get_flat_relatives(upstream=False)).
RECURSIVE FlatDownstream(_)
FlatDownstream(t) ==
    Downstream(t) \cup UNION {FlatDownstream(u) : u \in Downstream(t)}

\* Every task under the default trigger rule.
TriggerRuleAllSuccess(t) == "all_success"

\* trigger_rule of each task: the operator's argument, or the default.
trigger_rule(t) ==
    IF t \in {"collect_rain_weather_data", "collect_day_type_data",
              "final_quality_validation", "pipeline_success",
              "end_weekly_data_collection"}
    THEN "none_failed_min_one_success"
    ELSE "all_success"

\* default_args["retries"]
retries == 2

\* What the scheduler does with a task that has not run, from the states of
\* its upstream tasks: "wait", "run", or the state it gives the task
\* without running it ("skipped", "upstream_failed").
TriggerEval(tis, t) ==
    LET states == {tis[u].state : u \in Upstream(t)}
    IN IF states \cap {"failed", "upstream_failed"} # {} THEN "upstream_failed"
       ELSE IF trigger_rule(t) = "all_success"
       THEN IF "skipped" \in states THEN "skipped"
            ELSE IF "none" \in states THEN "wait"
            ELSE "run"
       ELSE \* none_failed_min_one_success
            IF "none" \in states THEN "wait"
            ELSE IF "success" \in states THEN "run"
            ELSE "skipped"

NoTaskInstances == [t \in Tasks |-> [state |-> "none", try_number |-> 0]]

\* A try of task t is about to start.
Runnable(t) == ti[t].state = "none" /\ TriggerEval(ti, t) = "run"

\* The task instances after a try of t that succeeded.
AttemptSucceeded(t) ==
    [ti EXCEPT ![t] = [state |-> "success", try_number |-> ti[t].try_number + 1]]

\* The task instances after a try of t that failed: up for retry while
\* tries are left, failed after the last one.
AttemptFailed(t) ==
    [ti EXCEPT ![t] = [state |-> IF ti[t].try_number + 1 > retries
                                 THEN "failed" ELSE "none",
                       try_number |-> ti[t].try_number + 1]]

\* The branch callables with the test dropped: the next collection is
\* returned whatever the status.
BranchChoiceAlwaysNext(status, failed_task, next_task) == next_task

\* if quality_check["status"] == "FAIL": return "<stage>_quality_failed"
\* else: return the next task
BranchChoice(status, failed_task, next_task) ==
    IF status = "FAIL" THEN failed_task ELSE next_task

\* A branch operator that marks no downstream task skipped.
SkipNothing(tis, t, chosen) == tis

\* BranchPythonOperator: the direct downstream tasks of t that are neither
\* the chosen task nor below it are marked skipped.
SkipAllExcept(tis, t, chosen) ==
    [u \in Tasks |->
        IF u \in Downstream(t) \ ({chosen} \cup FlatDownstream(chosen))
        THEN [tis[u] EXCEPT !.state = "skipped"]
        ELSE tis[u]]

(***************************************************************************)
(* Spec: one run of the DAG, from every table of a small family, on every  *)
(* answer of the three outside sources and every database fault.           *)
(***************************************************************************)
\* Number of grid points of the rain collector that the model keeps.
NumPoints == 2

\* The failed tries (script exits, crashed checks) a run is given at most.
MaxFailedTries == 3

\* CURRENT_DATE / datetime.now().date() during the run: Monday 2025-01-13.
RunDate == ToOrdinal(2025, 1, 13)

FilledRow(d) == MkRow(1, Weekday(d), <<5, 1>>, LinesFull)

PlaceholderRow(d) == MkRow(-1, Weekday(d), <<>>, LinesFull)

\* The tables a run starts from: the empty table, one complete row inside
\* the quality window, one row a former run left with its placeholders, and
\* one complete row older than the window, and the eight days of the window
\* with every line at 0.0 (days on which only the bus reported).
InitialStores ==
    { <<>>,
      [d \in {ToOrdinal(2025, 1, 10)} |-> FilledRow(d)],
      [d \in {ToOrdinal(2025, 1, 10)} |-> PlaceholderRow(d)],
      [d \in {ToOrdinal(2025, 1, 1)} |-> FilledRow(d)],
      [d \in ToOrdinal(2025, 1, 6)..ToOrdinal(2025, 1, 13) |->
          MkRow(1, Weekday(d), <<5, 1>>, ZeroLines(7))] }

\* A label that names no rail line: 'รถโดยสารประจำทาง ขสมก.'
LabelBus == <<3619, 3606, 3650, 3604, 3618, 3626, 3634, 3619, 3611, 3619, 3632, 3592, 3635, 3607, 3634, 3591, 32, 3586, 3626, 3617, 3585, 46>>

RawRecord(d, label, n) == [date |-> <<d>>, label |-> label, count |-> <<n>>]

\* The records published for date d: one per rail line in lines (indices of
\* vehicle_mapping, under the line's canonical label), and one for the bus.
Published(d, lines) ==
    [i \in 1..Len(lines) |-> RawRecord(d, vehicle_mapping[lines[i]].vehicle_name, 100)]
    \o <<RawRecord(d, LabelBus, 900)>>

\* The API at its best: the five days 2025-01-08 .. 2025-01-12 with every line.
RECURSIVE PublishedDays(_, _)
PublishedDays(first, n) ==
    IF n = 0 THEN <<>>
    ELSE PublishedDays(first, n - 1) \o Published(first + n - 1, <<1, 2, 3, 4, 5, 6, 7>>)

ApiFiveDays == [up |-> TRUE, records |-> PublishedDays(ToOrdinal(2025, 1, 8), 5)]

\* The answers of the transit API: down; nothing newer than 2025-01-01; two
\* new days with every line; one new day without BTS; two new days with the
\* bus only; five new days with every line.
MotApis ==
    { [up |-> FALSE, records |-> <<>>],
      ApiFiveDays,
      [up |-> TRUE, records |-> Published(ToOrdinal(2025, 1, 1), <<1, 2, 3, 4, 5, 6, 7>>)],
      [up |-> TRUE, records |-> Published(ToOrdinal(2025, 1, 11), <<1, 2, 3, 4, 5, 6, 7>>)
                                \o Published(ToOrdinal(2025, 1, 12), <<1, 2, 3, 4, 5, 6, 7>>)],
      [up |-> TRUE, records |-> Published(ToOrdinal(2025, 1, 11), <<1, 3, 4, 5, 6, 7>>)],
      [up |-> TRUE, records |-> Published(ToOrdinal(2025, 1, 11), <<>>)
                                \o Published(ToOrdinal(2025, 1, 12), <<>>)] }

\* The answers of the rain grid: each point fails, reports a dry day, or
\* reports 300 mm.
RainAnswers == [1..NumPoints -> {<<>>, <<0>>, <<300>>}]

\* The holiday calendars: none (the download failed), and one naming the
\* Saturday or the Sunday of the new days.
HolidayCalendars ==
    { {},
      {[enc |-> "compact", y |-> 2025, m |-> 1, d |-> 11]},
      {[enc |-> "dashed", y |-> 2025, m |-> 1, d |-> 12]} }

DbFaults == {"none", "read", "write"}

\* Where a quality check's database work raises: nowhere, in a query (here
\* the first), or in psycopg2.connect (outside the try).
CheckErrors == {"none", "first", "connect"}

Init ==
    /\ store \in InitialStores
    /\ today = RunDate
    /\ ti = NoTaskInstances
    /\ xcom = NoXCom
    /\ call = Idle

\* The tries of the run that failed so far.
FailedTries(tis) ==
    SumOver(Tasks, [t \in Tasks |->
                      tis[t].try_number - (IF tis[t].state = "success" THEN 1 ELSE 0)])

\* A SparkSubmitOperator's try: it succeeds iff the script exits 0.
AfterScript(t, ok) == IF ok THEN AttemptSucceeded(t) ELSE AttemptFailed(t)

\* A BranchPythonOperator's try on a quality check.  crashed: psycopg2.connect
\* raised (outside the try block) and nothing was pushed.  Otherwise the
\* result is pushed under key and the branch not returned is skipped.
XComAfterCheck(key, crashed, result) ==
    IF crashed THEN xcom ELSE [xcom EXCEPT ![key] = <<result>>]

AfterCheck(t, crashed, result, failed_task, next_task) ==
    IF crashed THEN AttemptFailed(t)
    ELSE SkipAllExcept(AttemptSucceeded(t), t,
                       BranchChoice(result.status, failed_task, next_task))

\* start_task (DummyOperator): its try always succeeds.
StartWeeklyDataCollection ==
    /\ Runnable("start_weekly_data_collection")
    /\ ti' = AttemptSucceeded("start_weekly_data_collection")
    /\ UNCHANGED <<store, today, xcom, call>>

CollectMotTransportData ==
    \E api \in MotApis, f \in DbFaults :
        LET r == mot_main(store, today, api, f)
        IN /\ Runnable("collect_mot_transport_data")
           /\ r.ok \/ FailedTries(ti) < MaxFailedTries
           /\ store' = r.db
           /\ ti' = AfterScript("collect_mot_transport_data", r.ok)
           /\ UNCHANGED <<today, xcom, call>>

MotQualityCheck ==
    \E err \in CheckErrors :
        LET result == check_mot_data_quality(store, today, err)
        IN /\ Runnable("mot_quality_check")
           /\ err = "connect" => FailedTries(ti) < MaxFailedTries
           /\ xcom' = XComAfterCheck("mot_quality_result", err = "connect", result)
           /\ ti' = AfterCheck("mot_quality_check", err = "connect", result,
                               "mot_quality_failed", "collect_rain_weather_data")
           /\ UNCHANGED <<store, today, call>>

CollectRainWeatherData ==
    \E points \in RainAnswers, client_up \in BOOLEAN, f \in DbFaults :
        LET r == rain_main(store, points, client_up, f)
        IN /\ Runnable("collect_rain_weather_data")
           /\ r.ok \/ FailedTries(ti) < MaxFailedTries
           /\ store' = r.db
           /\ ti' = AfterScript("collect_rain_weather_data", r.ok)
           /\ UNCHANGED <<today, xcom, call>>

RainQualityCheck ==
    \E err \in CheckErrors :
        LET result == check_rain_data_quality(store, today,
                                              xcom["mot_quality_result"], err)
        IN /\ Runnable("rain_quality_check")
           /\ err = "connect" => FailedTries(ti) < MaxFailedTries
           /\ xcom' = XComAfterCheck("rain_quality_result", err = "connect", result)
           /\ ti' = AfterCheck("rain_quality_check", err = "connect", result,
                               "rain_quality_failed", "collect_day_type_data")
           /\ UNCHANGED <<store, today, call>>

CollectDayTypeData ==
    \E holiday_df \in HolidayCalendars, f \in DbFaults :
        LET r == day_type_main(store, holiday_df, f)
        IN /\ Runnable("collect_day_type_data")
           /\ r.ok \/ FailedTries(ti) < MaxFailedTries
           /\ store' = r.db
           /\ ti' = AfterScript("collect_day_type_data", r.ok)
           /\ UNCHANGED <<today, xcom, call>>

DayTypeQualityCheck ==
    \E err \in CheckErrors :
        LET result == check_day_type_data_quality(store, today,
                                                  xcom["mot_quality_result"], err)
        IN /\ Runnable("day_type_quality_check")
           /\ err = "connect" => FailedTries(ti) < MaxFailedTries
           /\ xcom' = XComAfterCheck("day_type_quality_result", err = "connect", result)
           /\ ti' = AfterCheck("day_type_quality_check", err = "connect", result,
                               "day_type_quality_failed", "final_quality_validation")
           /\ UNCHANGED <<store, today, call>>

\* The PythonOperator on generate_final_report.
FinalQualityValidation ==
    /\ Runnable("final_quality_validation")
    /\ xcom' = [xcom EXCEPT !["final_report"] = <<generate_final_report(xcom)>>]
    /\ ti' = AttemptSucceeded("final_quality_validation")
    /\ UNCHANGED <<store, today, call>>

PipelineSuccess ==
    /\ Runnable("pipeline_success")
    /\ ti' = AttemptSucceeded("pipeline_success")
    /\ UNCHANGED <<store, today, xcom, call>>

MotQualityFailed ==
    /\ Runnable("mot_quality_failed")
    /\ ti' = AttemptSucceeded("mot_quality_failed")
    /\ UNCHANGED <<store, today, xcom, call>>

RainQualityFailed ==
    /\ Runnable("rain_quality_failed")
    /\ ti' = AttemptSucceeded("rain_quality_failed")
    /\ UNCHANGED <<store, today, xcom, call>>

DayTypeQualityFailed ==
    /\ Runnable("day_type_quality_failed")
    /\ ti' = AttemptSucceeded("day_type_quality_failed")
    /\ UNCHANGED <<store, today, xcom, call>>

EndWeeklyDataCollection ==
    /\ Runnable("end_weekly_data_collection")
    /\ ti' = AttemptSucceeded("end_weekly_data_collection")
    /\ UNCHANGED <<store, today, xcom, call>>

\* One pass of the scheduler over the run: every task that has not run and
\* whose trigger rule yields skipped or upstream_failed is given that state.
SchedulerSetsState ==
    LET settled == {t \in Tasks : /\ ti[t].state = "none"
                                  /\ TriggerEval(ti, t) \in {"skipped", "upstream_failed"}}
    IN /\ settled # {}
       /\ ti' = [t \in Tasks |->
                    IF t \in settled
                    THEN [ti[t] EXCEPT !.state = TriggerEval(ti, t)]
                    ELSE ti[t]]
       /\ UNCHANGED <<store, today, xcom, call>>

Next ==
    \/ StartWeeklyDataCollection
    \/ CollectMotTransportData
    \/ MotQualityCheck
    \/ CollectRainWeatherData
    \/ RainQualityCheck
    \/ CollectDayTypeData
    \/ DayTypeQualityCheck
    \/ FinalQualityValidation
    \/ PipelineSuccess
    \/ MotQualityFailed
    \/ RainQualityFailed
    \/ DayTypeQualityFailed
    \/ EndWeeklyDataCollection
    \/ SchedulerSetsState

Spec == Init /\ [][Next]_vars

\* The task was tried at least once.
Executed(t) == ti[t].try_number > 0

\* Every task instance of the run has its final state.
RunComplete == \A t \in Tasks : ti[t].state # "none"

\* The three stages in pipeline order, each with its collection task, its
\* quality check, its failure endpoint and the XCom key of its result.
Stages ==
    << [name |-> "mot", collect |-> "collect_mot_transport_data",
        check |-> "mot_quality_check", failed |-> "mot_quality_failed",
        key |-> "mot_quality_result"],
       [name |-> "rain", collect |-> "collect_rain_weather_data",
        check |-> "rain_quality_check", failed |-> "rain_quality_failed",
        key |-> "rain_quality_result"],
       [name |-> "day_type", collect |-> "collect_day_type_data",
        check |-> "day_type_quality_check", failed |-> "day_type_quality_failed",
        key |-> "day_type_quality_result"] >>

\* The verdict the stage's quality check returned in this run, if it did.
Verdict(i) == StatusOrUnknown(xcom[Stages[i].key])

\* The collections and quality checks of the stages after stage i, and the
\* final report.
LaterStageTasks(i) ==
    {Stages[j].collect : j \in (i + 1)..Len(Stages)}
    \cup {Stages[j].check : j \in (i + 1)..Len(Stages)}
    \cup {"final_quality_validation"}

\* The task that follows stage i on a verdict other than FAIL.
NextAfter(i) ==
    IF i < Len(Stages) THEN Stages[i + 1].collect ELSE "final_quality_validation"

\* C1: if the quality check of a stage returned FAIL, the run takes the
\* stage's *_quality_failed branch (that task is never skipped, and has run
\* when the run is complete), and no collection task, quality check or final
\* report of a later stage is ever tried in the run.
C1_FailTakesFailedBranch ==
    \A i \in 1..Len(Stages) :
        Verdict(i) = "FAIL" =>
            /\ ti[Stages[i].failed].state \in {"none", "success"}
            /\ RunComplete => ti[Stages[i].failed].state = "success"
            /\ \A t \in LaterStageTasks(i) :
                   ~Executed(t) /\ ti[t].state \in {"none", "skipped"}
            /\ xcom["final_report"] = <<>>

\* Witness of C1: a complete run whose rain check returned FAIL from its
\* score: rain_quality_failed ran and the day-type collection was skipped.
C1_Witness ==
    /\ RunComplete
    /\ Verdict(2) = "FAIL"
    /\ ~xcom["rain_quality_result"][1].error
    /\ ti["rain_quality_failed"].state = "success"
    /\ ti["collect_day_type_data"].state = "skipped"
    /\ ti["end_weekly_data_collection"].state = "success"

\* C2: if a stage's quality check returned PASS or WARNING, the next
\* stage's collection (for DayType: the final report) is what runs next: it
\* is not skipped, nothing below it is tried before it, the stage's failure
\* endpoint is skipped, and it has been tried when the run is complete; no
\* collection is tried before the quality check of the stage before it has
\* finished; and after a non-FAIL DayType check the final report is
\* generated and pipeline_success runs.
C2_NonFailProceedsInOrder ==
    /\ \A i \in 1..Len(Stages) :
           Verdict(i) \in {"PASS", "WARNING"} =>
               /\ ti[NextAfter(i)].state \notin {"skipped", "upstream_failed"}
               /\ ti[Stages[i].failed].state = "skipped"
               /\ ~Executed(NextAfter(i)) =>
                      \A t \in FlatDownstream(NextAfter(i)) : ~Executed(t)
               /\ RunComplete => Executed(NextAfter(i))
    /\ \A i \in 2..Len(Stages) :
           Executed(Stages[i].collect) =>
               /\ ti[Stages[i - 1].check].state = "success"
               /\ Verdict(i - 1) \in {"PASS", "WARNING"}
    /\ (RunComplete /\ Verdict(Len(Stages)) \in {"PASS", "WARNING"}) =>
           /\ xcom["final_report"] # <<>>
           /\ ti["final_quality_validation"].state = "success"
           /\ ti["pipeline_success"].state = "success"

\* Witness of C2: a complete run that passed the three checks, the transit
\* one with a WARNING, and reached pipeline_success with its report.
C2_Witness ==
    /\ RunComplete
    /\ Verdict(1) = "WARNING"
    /\ Verdict(2) = "PASS"
    /\ Verdict(3) \in {"PASS", "WARNING"}
    /\ xcom["final_report"] # <<>>
    /\ ti["pipeline_success"].state = "success"

\* C3 (as claimed): in every run whose tasks all ran to their end (none
\* failed), also one aborted by a FAIL verdict, an aggregate report is
\* produced; it holds the quality result of every stage whose check ran, and
\* its overall_status is FAIL when some stage's verdict was FAIL.
C3_EveryRunHasAggregateReport ==
    (RunComplete /\ \A t \in Tasks : ti[t].state \in {"success", "skipped"}) =>
        /\ xcom["final_report"] # <<>>
        /\ \A i \in 1..Len(Stages) :
               xcom[Stages[i].key] # <<>> =>
                   xcom["final_report"][1].stages[Stages[i].name] = xcom[Stages[i].key]
        /\ (\E i \in 1..Len(Stages) : Verdict(i) = "FAIL") =>
               xcom["final_report"][1].overall_status = "FAIL"

(***************************************************************************)
(* SpecQuality: each quality check called once on every table of three     *)
(* families (line values, rain values, day types around a weekend), with   *)
(* and without a query that raises.  CURRENT_DATE is RunDate, a Monday.    *)
(***************************************************************************)
\* The line profiles of a row: complete; 2, 3 or 7 cells at zero; a NULL
\* cell; a cell above, and a cell at, its anomaly threshold; a negative cell.
LineProfiles ==
    { LinesFull, ZeroLines(2), ZeroLines(3), ZeroLines(7),
      [LinesFull EXCEPT !["arl"] = <<>>],
      [LinesFull EXCEPT !["bts"] = <<2000001>>],
      [LinesFull EXCEPT !["bts"] = <<2000000>>],
      [LinesFull EXCEPT !["arl"] = <<-5>>] }

\* Tables over the dates S, each date absent or with one of the rows Rows(d).
TablesOver(S, Rows(_)) ==
    UNION { [T -> UNION {Rows(d) : d \in T}] : T \in SUBSET S }

\* Tables of complete rows that differ in their line values: a day before
\* the window, the first day of the window and yesterday.
MotTables ==
    LET S == {RunDate - 8, RunDate - 7, RunDate - 1}
        t == TablesOver(S, LAMBDA d : {MkRow(1, Weekday(d), <<5, 1>>, l) : l \in LineProfiles})
    IN {f \in t : \A d \in DOMAIN f : f[d]["dow"] = Weekday(d)}

\* Tables that differ in rain_average: unset, dry, 5 mm, 200 mm, 200.5 mm, -1 mm.
RainTables ==
    LET S == {RunDate - 2, RunDate - 1, RunDate}
        t == TablesOver(S, LAMBDA d : {MkRow(1, Weekday(d), ra, LinesFull) :
                                         ra \in {<<>>, <<0, 1>>, <<5, 1>>, <<200, 1>>,
                                                 <<401, 2>>, <<-1, 1>>}})
    IN {f \in t : \A d \in DOMAIN f : f[d]["dow"] = Weekday(d)}

\* Tables that differ in day_type, over Friday, Saturday, Sunday and Monday;
\* dow is the weekday of the date, as the transit collector stores it.
DayTypeTables ==
    LET S == {RunDate - 3, RunDate - 2, RunDate - 1, RunDate}
        t == TablesOver(S, LAMBDA d : {MkRow(dt, Weekday(d), <<5, 1>>, LinesFull) :
                                         dt \in {-1, 0, 1, 2}})
    IN {f \in t : \A d \in DOMAIN f : f[d]["dow"] = Weekday(d)}

\* What xcom_pull(key='mot_quality_result') gives a later check: nothing, or
\* a transit result with its records_processed.
MotResults == {<<>>} \cup {<<[records_processed |-> n, status |-> "PASS"]>> : n \in 0..4}

QueryErrors == {"none", "first", "late"}

InitQuality ==
    /\ today = RunDate
    /\ ti = <<>>
    /\ xcom = <<>>
    /\ \/ /\ store \in MotTables
          /\ \E err \in QueryErrors :
                call = Pending("check_mot_data_quality", <<err, <<>>>>)
       \/ /\ store \in RainTables
          /\ \E err \in QueryErrors, mot_result \in MotResults :
                call = Pending("check_rain_data_quality", <<err, mot_result>>)
       \/ /\ store \in DayTypeTables
          /\ \E err \in QueryErrors, mot_result \in MotResults :
                call = Pending("check_day_type_data_quality", <<err, mot_result>>)

\* The checks only read the table.
CallCheckMotDataQuality ==
    /\ call.fn = "check_mot_data_quality" /\ call.runs = 0
    /\ call' = Returned(call, check_mot_data_quality(store, today, call.args[1]))
    /\ UNCHANGED <<store, today, ti, xcom>>

CallCheckRainDataQuality ==
    /\ call.fn = "check_rain_data_quality" /\ call.runs = 0
    /\ call' = Returned(call, check_rain_data_quality(store, today, call.args[2],
                                                      call.args[1]))
    /\ UNCHANGED <<store, today, ti, xcom>>

CallCheckDayTypeDataQuality ==
    /\ call.fn = "check_day_type_data_quality" /\ call.runs = 0
    /\ call' = Returned(call, check_day_type_data_quality(store, today, call.args[2],
                                                          call.args[1]))
    /\ UNCHANGED <<store, today, ti, xcom>>

NextQuality ==
    \/ CallCheckMotDataQuality
    \/ CallCheckRainDataQuality
    \/ CallCheckDayTypeDataQuality

SpecQuality == InitQuality /\ [][NextQuality]_vars

\* The rows of the table inside the quality window.
WindowRows == {d \in DOMAIN store : d >= today - 7}

\* The missing cells of the window: a line column that is NULL or exactly 0.
MissingCells ==
    {<<d, c>> \in WindowRows \X LineColumns : store[d][c] = <<>> \/ store[d][c] = <<0>>}

\* The anomalous cells of the window: negative, or above the line's threshold.
AnomalousCells ==
    {<<d, c>> \in WindowRows \X LineColumns :
        /\ store[d][c] # <<>>
        /\ store[d][c][1] < 0 \/ store[d][c][1] > anomaly_thresholds[c]}

\* The transit check has returned, none of its queries having raised.
MotCheckReturned ==
    call.fn = "check_mot_data_quality" /\ call.runs = 1 /\ call.args[1] = "none"

\* C12: in the transit quality check, when no query raises, the verdict is
\* FAIL iff score < 0.8; otherwise WARNING iff the window holds at least one
\* anomaly or one missing (NULL or zero) cell; otherwise PASS.
C12_TransitVerdictRule ==
    MotCheckReturned =>
        LET r == call.ret
            below == 5 * r.quality_score[1] < 4 * r.quality_score[2]
            flawed == AnomalousCells # {} \/ MissingCells # {}
        IN /\ r.status = "FAIL" <=> below
           /\ r.status = "WARNING" <=> (~below /\ flawed)
           /\ r.status = "PASS" <=> (~below /\ ~flawed)

\* Witness of C12: a WARNING that rests on missing cells alone, and none on
\* an anomaly.
C12_Witness ==
    /\ MotCheckReturned
    /\ call.ret.status = "WARNING"
    /\ AnomalousCells = {}
    /\ MissingCells # {}

\* The transit check has returned, whether or not a query raised.
MotCheckDone == call.fn = "check_mot_data_quality" /\ call.runs = 1

\* The boundary of the transit score over 49 expected cells: 10 missing cells
\* give 39/49 and FAIL, 9 or fewer give a score >= 0.8 and no FAIL, and the
\* verdict is FAIL exactly when at least 10 cells are missing.
TenMissingBoundary ==
    LET r == call.ret
        missing == Cardinality(MissingCells)
    IN /\ missing = 10 =>
             /\ 49 * r.quality_score[1] = 39 * r.quality_score[2]
             /\ r.status = "FAIL"
       /\ missing <= 9 =>
             /\ 5 * r.quality_score[1] >= 4 * r.quality_score[2]
             /\ r.status # "FAIL"
       /\ r.status = "FAIL" <=> missing >= 10

InUnitInterval(score) == score[2] > 0 /\ 0 <= score[1] /\ score[1] <= score[2]

\* (49 - missing) / 49 clamped at 0, missing counting once each window cell
\* of the seven line columns that is NULL or exactly zero.  No task changes
\* a line cell after the transit check of the run, so the cells are read from
\* the table as it is.
ExpectedTransitScore ==
    LET left == 49 - Cardinality(MissingCells)
    IN <<IF left > 0 THEN left ELSE 0, 49>>

SameScore(a, b) == a[1] * b[2] = b[1] * a[2]

C14_AllThreeReported == \A k \in StageKeys : xcom[k] # <<>>

\* The window rows whose rain_average is negative or above 200 mm.
RainAnomalyRows ==
    {d \in WindowRows :
        /\ store[d]["rain_average"] # <<>>
        /\ \/ store[d]["rain_average"][1] < 0
           \/ store[d]["rain_average"][1] > 200 * store[d]["rain_average"][2]}

\* C15: the rain quality check (no query raising) records as an anomaly
\* every window row whose rain_average is negative or above 200, leaves the
\* table as it is, and, when the score is >= 0.8, reports WARNING rather than
\* PASS whenever it recorded such an anomaly.  Violated: the status rule
\* never looks at the anomalies.
C15_RainAnomalyRecordedAndWarned ==
    [][(CallCheckRainDataQuality /\ call.args[1] = "none") =>
          LET r == call'.ret
          IN /\ store' = store
             /\ {a[1] : a \in r.anomalies} = RainAnomalyRows
             /\ (r.anomalies # {} /\ 5 * r.quality_score[1] >= 4 * r.quality_score[2]) =>
                    r.status = "WARNING"]_vars

\* The window rows that fall on a Saturday or a Sunday and whose day_type is
\* neither 1 nor 2.
MisclassifiedWeekendRows ==
    {d \in WindowRows : Weekday(d) \in {5, 6} /\ store[d]["day_type"] \notin {1, 2}}

\* C16: dow being the weekday of the date, the day-type quality check (no
\* query raising) records a classification error for exactly the window rows
\* that fall on a Saturday or a Sunday with a day_type outside {1, 2}, and
\* any recorded error makes the verdict WARNING or FAIL.  Violated: the query
\* selects dow IN (6, 0), which is Sunday and Monday.
C16_WeekendErrorsRecorded ==
    (/\ call.fn = "check_day_type_data_quality" /\ call.runs = 1
     /\ call.args[1] = "none"
     /\ \A d \in DOMAIN store : store[d]["dow"] = Weekday(d)) =>
        /\ {e[1] : e \in call.ret.classification_errors} = MisclassifiedWeekendRows
        /\ call.ret.classification_errors # {} => call.ret.status \in {"WARNING", "FAIL"}

(***************************************************************************)
(* SpecNormalize: process_mot_data called once on every list of at most    *)
(* MaxRecords raw records of a small pool.                                 *)
(***************************************************************************)
MaxRecords == 2

\* 'มวง-สาย': a purple-group spelling ('มวง') that is not the mapped label.
LabelPurpleVariant == <<3617, 3623, 3591, 45, 3626, 3634, 3618>>

LabelPurple == vehicle_mapping[4].vehicle_name

LabelBTS == vehicle_mapping[2].vehicle_name

\* 'รถไฟฟ้า BTS-รถไฟฟ้าสายสีม่วง': a label inside two groups, BTS and purple.
LabelBTSPurple == LabelBTS \o <<45>> \o LabelPurple

\* The raw records: Saturday 2025-01-11 at midnight and with a time of day,
\* Sunday 2025-01-12, or a date that does not parse; a purple label, its
\* variant, BTS, a label of both BTS and purple, or the bus; two counts; and
\* records without label or count.
RecordPool ==
    LET d == ToOrdinal(2025, 1, 11)
    IN { [date |-> dt, label |-> l, count |-> <<n>>] :
            dt \in {<<d>>, <<d, 1>>, <<d + 1>>, <<>>},
            l \in {LabelPurple, LabelPurpleVariant, LabelBTS, LabelBTSPurple, LabelBus},
            n \in {100, 7} }
       \cup { [date |-> <<d>>, label |-> <<>>, count |-> <<100>>],
              [date |-> <<d>>, label |-> LabelPurple, count |-> <<>>],
              [date |-> <<d>>, label |-> LabelPurpleVariant, count |-> <<>>] }

InitNormalize ==
    /\ store = <<>>
    /\ today = RunDate
    /\ ti = <<>>
    /\ xcom = <<>>
    /\ \E n \in 0..MaxRecords : \E records \in [1..n -> RecordPool] :
          call = Pending("process_mot_data", <<records>>)

CallProcessMotData ==
    /\ call.fn = "process_mot_data" /\ call.runs = 0
    /\ call' = Returned(call, process_mot_data(call.args[1]))
    /\ UNCHANGED <<store, today, ti, xcom>>

NextNormalize == CallProcessMotData

SpecNormalize == InitNormalize /\ [][NextNormalize]_vars

\* The label belongs to the purple group of line_groups.
InPurpleGroup(label) ==
    \E k \in 1..Len(line_groups[4].keywords) : Contains(label, line_groups[4].keywords[k])

\* C17: when the records of one date carry two different labels of the
\* purple group (every record well formed, dated at midnight), the normalizer
\* emits one row for that date whose mrt_purple is the sum of the counts under
\* both labels.  Violated: the merged column keeps the name that sorts first,
\* and 'มวง-สาย' is not a name vehicle_mapping knows.
C17_PurpleLabelsMerged ==
    (call.fn = "process_mot_data" /\ call.runs = 1) =>
        LET records == call.args[1]
            wellFormed == \A i \in 1..Len(records) :
                             /\ Len(records[i].date) = 1
                             /\ records[i].label # <<>>
                             /\ records[i].count # <<>>
            days == {records[i].date[1] : i \in 1..Len(records)}
            purple(d) == {i \in 1..Len(records) :
                            records[i].date = <<d>> /\ InPurpleGroup(records[i].label)}
        IN wellFormed =>
              \A d \in days :
                 Cardinality({records[i].label : i \in purple(d)}) = 2 =>
                    /\ ~call.ret.raised
                    /\ \E i \in 1..Len(call.ret.df) :
                          /\ call.ret.df[i]["feature_date"] = d
                          /\ \A j \in 1..Len(call.ret.df) :
                                call.ret.df[j]["feature_date"] = d => j = i
                          /\ call.ret.df[i]["mrt_purple"] =
                                <<SumOver(purple(d),
                                          [k \in purple(d) |-> records[k].count[1]])>>

\* C20: every row the normalizer emits has day_type = -1, rain_average unset,
\* dow the weekday (0..6) of its date, and exactly the seven line keys, each
\* 0.0 unless a record of that day carries the label mapped to the column;
\* and no two rows have the same date.  Violated: the rows are one per parsed
\* timestamp, so two times of one day give two rows of that date.
C20_NormalizerRows ==
    (call.fn = "process_mot_data" /\ call.runs = 1 /\ ~call.ret.raised) =>
        LET records == call.args[1]
            df == call.ret.df
        IN /\ \A i \in 1..Len(df) :
                 /\ DOMAIN df[i] = {"feature_date", "day_type", "dow", "rain_average"}
                                   \cup {vehicle_mapping[k].target_col :
                                            k \in 1..Len(vehicle_mapping)}
                 /\ df[i]["day_type"] = -1
                 /\ df[i]["rain_average"] = <<>>
                 /\ df[i]["dow"] = Weekday(df[i]["feature_date"])
                 /\ df[i]["dow"] \in 0..6
                 /\ \A k \in 1..Len(vehicle_mapping) :
                       df[i][vehicle_mapping[k].target_col] # <<0>> =>
                          \E r \in 1..Len(records) :
                             /\ records[r].date # <<>>
                             /\ records[r].date[1] = df[i]["feature_date"]
                             /\ records[r].label # <<>>
                             /\ Contains(records[r].label, vehicle_mapping[k].vehicle_name)
           /\ \A i, j \in 1..Len(df) :
                 df[i]["feature_date"] = df[j]["feature_date"] => i = j

(***************************************************************************)
(* SpecRun: a DAG run in a world fixed at its start: the table the run     *)
(* found, what the three sources answer, which database call of each       *)
(* collector raises and which query of each check raises.  Every try of a  *)
(* task meets the same world.  call holds the world.                       *)
(***************************************************************************)
World == call.args[1]

\* Every source answers, for every day and point, and nothing raises.
HealthyWorld(initial) ==
    [initial |-> initial,
     api |-> ApiFiveDays,
     points |-> [i \in 1..NumPoints |-> <<0>>],
     client_up |-> TRUE,
     holiday_df |-> {[enc |-> "compact", y |-> 2025, m |-> 1, d |-> 11]},
     faults |-> [mot |-> "none", rain |-> "none", day_type |-> "none"],
     errs |-> [mot |-> "none", rain |-> "none", day_type |-> "none"]]

\* The healthy world, and the worlds that differ from it in one respect.
Worlds(initial) ==
    LET h == HealthyWorld(initial)
    IN {h}
       \cup {[h EXCEPT !.api = a] : a \in MotApis}
       \cup {[h EXCEPT !.points = p] : p \in RainAnswers}
       \cup {[h EXCEPT !.client_up = FALSE]}
       \cup {[h EXCEPT !.holiday_df = c] : c \in HolidayCalendars}
       \cup {[h EXCEPT !.faults[k] = f] : k \in {"mot", "rain", "day_type"}, f \in DbFaults}
       \cup {[h EXCEPT !.errs[k] = e] : k \in {"mot", "rain", "day_type"}, e \in CheckErrors}

IsHealthy(w) == w = HealthyWorld(w.initial)

InitRun ==
    /\ store \in InitialStores
    /\ today = RunDate
    /\ ti = NoTaskInstances
    /\ xcom = NoXCom
    /\ \E w \in Worlds(store) : call = Pending("dag_run", <<w>>)

\* The tasks of the run with a source or a database behind them: the task
\* actions of Spec, each try meeting the world of the run.
RunCollectMotTransportData ==
    LET r == mot_main(store, today, World.api, World.faults.mot)
    IN /\ Runnable("collect_mot_transport_data")
       /\ r.ok \/ FailedTries(ti) < MaxFailedTries
       /\ store' = r.db
       /\ ti' = AfterScript("collect_mot_transport_data", r.ok)
       /\ UNCHANGED <<today, xcom, call>>

RunMotQualityCheck ==
    LET err == World.errs.mot
        result == check_mot_data_quality(store, today, err)
    IN /\ Runnable("mot_quality_check")
       /\ err = "connect" => FailedTries(ti) < MaxFailedTries
       /\ xcom' = XComAfterCheck("mot_quality_result", err = "connect", result)
       /\ ti' = AfterCheck("mot_quality_check", err = "connect", result,
                           "mot_quality_failed", "collect_rain_weather_data")
       /\ UNCHANGED <<store, today, call>>

RunCollectRainWeatherData ==
    LET r == rain_main(store, World.points, World.client_up, World.faults.rain)
    IN /\ Runnable("collect_rain_weather_data")
       /\ r.ok \/ FailedTries(ti) < MaxFailedTries
       /\ store' = r.db
       /\ ti' = AfterScript("collect_rain_weather_data", r.ok)
       /\ UNCHANGED <<today, xcom, call>>

RunRainQualityCheck ==
    LET err == World.errs.rain
        result == check_rain_data_quality(store, today,
                                          xcom["mot_quality_result"], err)
    IN /\ Runnable("rain_quality_check")
       /\ err = "connect" => FailedTries(ti) < MaxFailedTries
       /\ xcom' = XComAfterCheck("rain_quality_result", err = "connect", result)
       /\ ti' = AfterCheck("rain_quality_check", err = "connect", result,
                           "rain_quality_failed", "collect_day_type_data")
       /\ UNCHANGED <<store, today, call>>

RunCollectDayTypeData ==
    LET r == day_type_main(store, World.holiday_df, World.faults.day_type)
    IN /\ Runnable("collect_day_type_data")
       /\ r.ok \/ FailedTries(ti) < MaxFailedTries
       /\ store' = r.db
       /\ ti' = AfterScript("collect_day_type_data", r.ok)
       /\ UNCHANGED <<today, xcom, call>>

RunDayTypeQualityCheck ==
    LET err == World.errs.day_type
        result == check_day_type_data_quality(store, today,
                                              xcom["mot_quality_result"], err)
    IN /\ Runnable("day_type_quality_check")
       /\ err = "connect" => FailedTries(ti) < MaxFailedTries
       /\ xcom' = XComAfterCheck("day_type_quality_result", err = "connect", result)
       /\ ti' = AfterCheck("day_type_quality_check", err = "connect", result,
                           "day_type_quality_failed", "final_quality_validation")
       /\ UNCHANGED <<store, today, call>>

NextRun ==
    \/ StartWeeklyDataCollection
    \/ RunCollectMotTransportData
    \/ RunMotQualityCheck
    \/ RunCollectRainWeatherData
    \/ RunRainQualityCheck
    \/ RunCollectDayTypeData
    \/ RunDayTypeQualityCheck
    \/ FinalQualityValidation
    \/ PipelineSuccess
    \/ MotQualityFailed
    \/ RainQualityFailed
    \/ DayTypeQualityFailed
    \/ EndWeeklyDataCollection
    \/ SchedulerSetsState

SpecRun == InitRun /\ [][NextRun]_vars

\* C18: when the features store is empty (the transit API answering and no
\* database call raising), a try of the transit collection fetches the
\* records and inserts rows: it does not end in failure with the store
\* unchanged.  Violated: main() returns False as soon as MAX(feature_date)
\* is None.
C18_EmptyStoreBackfilled ==
    [][(/\ RunCollectMotTransportData
        /\ store = <<>>
        /\ World.api.up /\ World.api.records # <<>>
        /\ World.faults.mot = "none") =>
           /\ store' # <<>>
           /\ ti'["collect_mot_transport_data"].state = "success"]_vars

\* The five days the healthy API publishes.
FiveDays == {World.api.records[i].date[1] : i \in 1..Len(World.api.records)}

\* C19: in a run that starts from the empty store with every source healthy,
\* the transit collection leaves 5 rows, all with day_type = -1 and
\* rain_average unset; and once the run is complete the transit check has
\* reported PASS, the 5 rows have their rain_average, none has day_type = -1
\* and the final report's overall_status is PASS.  Violated, because of the
\* fault of C18: the transit collection fails on the empty store.
C19_EndToEndFromEmptyStore ==
    (IsHealthy(World) /\ World.initial = <<>>) =>
        /\ (/\ ti["collect_mot_transport_data"].state = "success"
            /\ ti["collect_rain_weather_data"].try_number = 0) =>
               /\ DOMAIN store = FiveDays /\ Cardinality(FiveDays) = 5
               /\ \A d \in DOMAIN store :
                     store[d]["day_type"] = -1 /\ store[d]["rain_average"] = <<>>
        /\ RunComplete =>
               /\ DOMAIN store = FiveDays /\ Cardinality(FiveDays) = 5
               /\ StatusOrUnknown(xcom["mot_quality_result"]) = "PASS"
               /\ \A d \in DOMAIN store :
                     store[d]["rain_average"] # <<>> /\ store[d]["day_type"] # -1
               /\ xcom["final_report"] # <<>>
               /\ xcom["final_report"][1].overall_status = "PASS"
\* The groups of line_groups, by index, whose keywords occur in the label.
GroupsOf(label) ==
    {g \in 1..Len(line_groups) :
        \E k \in 1..Len(line_groups[g].keywords) :
            Contains(label, line_groups[g].keywords[k])}

\* The first group of the label in the fixed order (0: no group).
FirstGroup(label) ==
    IF GroupsOf(label) = {} THEN 0
    ELSE CHOOSE g \in GroupsOf(label) : \A h \in GroupsOf(label) : g <= h

\* C22: a label inside more than one line group counts for the first of its
\* groups in the order ARL, BTS, blue, purple, pink, red, yellow, and
\* process_mot_data still returns the batch: it does not raise, and every
\* line of every day holds the counts of the labels of its group.  Stated for
\* well-formed records at midnight whose labels carry the mapped name of
\* their first group.  Violated: the two-group label takes part in the merge
\* of its second group as well and absorbs that line's column.
C22_AmbiguousLabelFirstGroup ==
    (call.fn = "process_mot_data" /\ call.runs = 1) =>
        LET records == call.args[1]
            idx == 1..Len(records)
            wellFormed == \A i \in idx :
                             /\ Len(records[i].date) = 1
                             /\ records[i].label # <<>>
                             /\ records[i].count # <<>>
            named == \A i \in idx :
                        FirstGroup(records[i].label) # 0 =>
                            MappingOf(records[i].label) = FirstGroup(records[i].label)
            ambiguous == \E i \in idx : Cardinality(GroupsOf(records[i].label)) > 1
            days == {records[i].date[1] : i \in idx}
            of(d, g) == {i \in idx : records[i].date = <<d>> /\ FirstGroup(records[i].label) = g}
        IN (wellFormed /\ named /\ ambiguous) =>
              /\ ~call.ret.raised
              /\ \A d \in days :
                    \E r \in 1..Len(call.ret.df) :
                       /\ call.ret.df[r]["feature_date"] = d
                       /\ \A g \in 1..Len(vehicle_mapping) :
                             call.ret.df[r][vehicle_mapping[g].target_col] =
                                <<SumOver(of(d, g), [i \in of(d, g) |-> records[i].count[1]])>>
\* The list without its i-th element.
Without(seq, i) == SubSeq(seq, 1, i - 1) \o SubSeq(seq, i + 1, Len(seq))

\* C23: a record whose date is missing or does not parse is dropped, and a
\* record whose count does not parse counts for 0; neither aborts the batch,
\* and the rows derived from the other records are what they would be had
\* the malformed record not been in the input.  Violated for a count that
\* does not parse: the record still brings its label into the pivot, and by
\* the fault of C17 the merge under that label takes the line's value away.
C23_MalformedRecordHarmless ==
    (call.fn = "process_mot_data" /\ call.runs = 1) =>
        LET records == call.args[1]
        IN \A i \in 1..Len(records) :
              LET base == process_mot_data(Without(records, i))
              IN /\ records[i].date = <<>> => call.ret = base
                 /\ (records[i].date # <<>> /\ records[i].count = <<>>) =>
                       /\ ~base.raised => ~call.ret.raised
                       /\ \A r \in 1..Len(base.df) :
                             \E q \in 1..Len(call.ret.df) : call.ret.df[q] = base.df[r]
(***************************************************************************)
(* The rain stage and the grid points that fail.                           *)
(***************************************************************************)

\* The grid points of the run's world whose request succeeded.
AnsweredPoints == {i \in 1..Len(World.points) : World.points[i] # <<>>}

\* The dates the rain stage asks for: the rows whose rain_average is NULL.
NullRainDates == {d \in DOMAIN store : store[d]["rain_average"] = <<>>}

\* ra is the mean of the readings of the points that answered.
IsMeanOfAnswered(ra) ==
    /\ Len(ra) = 2
    /\ ra[1] * Cardinality(AnsweredPoints)
         = ra[2] * SumOver(AnsweredPoints,
                           [i \in AnsweredPoints |-> World.points[i][1]])

\* C24: a try of the rain stage writes, for each date whose rain_average is
\* NULL, the mean of the readings of the grid points that answered (a point
\* that failed is left out of the mean and the points after it are still
\* read), and touches nothing else; when every point fails the try fails
\* and the store is unchanged.
C24_RainMeanOverAnsweredPoints ==
    [][RunCollectRainWeatherData =>
         IF NullRainDates = {} THEN store' = store
         ELSE IF AnsweredPoints = {}
         THEN /\ store' = store
              /\ ti'["collect_rain_weather_data"].state # "success"
         ELSE (World.client_up /\ World.faults.rain = "none") =>
              /\ DOMAIN store' = DOMAIN store
              /\ ti'["collect_rain_weather_data"].state = "success"
              /\ \A d \in NullRainDates :
                    /\ IsMeanOfAnswered(store'[d]["rain_average"])
                    /\ [store'[d] EXCEPT !["rain_average"] = <<>>] = store[d]
              /\ \A d \in DOMAIN store \ NullRainDates : store'[d] = store[d]
      ]_vars

\* The first point failed, the second read 300: the rows are filled with 300.
C24_Witness ==
    /\ call.fn = "dag_run"
    /\ World.points[1] = <<>>
    /\ \A i \in 2..Len(World.points) : World.points[i] = <<300>>
    /\ ti["collect_rain_weather_data"].state = "success"
    /\ \E d \in DOMAIN store :
          /\ d \notin DOMAIN World.initial
          /\ store[d]["rain_average"] = <<300, 1>>

\* Every point failed: the rain stage has failed and no row was filled.
C24_AllPointsFailed ==
    /\ call.fn = "dag_run"
    /\ \A i \in 1..Len(World.points) : World.points[i] = <<>>
    /\ ti["collect_rain_weather_data"].state = "failed"
    /\ \E d \in DOMAIN store : store[d]["rain_average"] = <<>>
(***************************************************************************)
(* SpecTransit: main() of the transit collector, run once on 2025-01-13    *)
(* against a table that lags the source by up to three months.             *)
(***************************************************************************)

\* The days the source may have published.
SourceDays ==
    << ToOrdinal(2024, 11, 20), ToOrdinal(2024, 12, 15), ToOrdinal(2024, 12, 31),
       ToOrdinal(2025, 1, 2), ToOrdinal(2025, 1, 10) >>

\* What the source holds for a day: nothing, a record dated at midnight, or
\* a record dated with a time of day.
DayRecords(d, kind) ==
    IF kind = "absent" THEN <<>>
    ELSE IF kind = "midnight" THEN <<RawRecord(d, LabelBTS, 100)>>
    ELSE <<[date |-> <<d, 1>>, label |-> LabelBTS, count |-> <<100>>]>>

RECURSIVE SourceRecords(_, _)
SourceRecords(kinds, n) ==
    IF n = 0 THEN <<>>
    ELSE SourceRecords(kinds, n - 1) \o DayRecords(SourceDays[n], kinds[n])

SourceApis ==
    {[up |-> FALSE, records |-> <<>>]}
    \cup {[up |-> TRUE, records |-> SourceRecords(kinds, Len(SourceDays))] :
            kinds \in [1..Len(SourceDays) -> {"absent", "midnight", "timed"}]}

\* The tables the collector finds: complete rows up to a latest date in
\* October, November or December 2024 or January 2025.
LaggingStores ==
    { [d \in {ToOrdinal(2024, 10, 31)} |-> FilledRow(d)],
      [d \in {ToOrdinal(2024, 10, 31), ToOrdinal(2024, 11, 20)} |-> FilledRow(d)],
      [d \in {ToOrdinal(2024, 12, 15)} |-> FilledRow(d)],
      [d \in {ToOrdinal(2024, 11, 20), ToOrdinal(2025, 1, 2)} |-> FilledRow(d)] }

InitTransit ==
    /\ store \in LaggingStores
    /\ today = RunDate
    /\ ti = <<>>
    /\ xcom = <<>>
    /\ \E api \in SourceApis, f \in DbFaults :
          call = Pending("mot_main", <<store, api, f>>)

\* The frame main() passes to insert_new_data, <<>> when it returns before.
RowsPassedToInsert(db, now, api, db_fault) ==
    LET latest == get_latest_date_from_db(db, db_fault # "read")
        months == MonthsToQuery(latest[1], now)
        all_records == FetchAll(api, months, Len(months))
        new_records == filter_new_records(all_records, latest[1])
        p == process_mot_data(new_records)
    IN IF latest = <<>> \/ Len(all_records) = 0 \/ Len(new_records) = 0 \/ p.raised
       THEN <<>>
       ELSE p.df

CallMotMain ==
    /\ call.fn = "mot_main" /\ call.runs = 0
    /\ LET r == mot_main(store, today, call.args[2], call.args[3])
       IN /\ store' = r.db
          /\ call' = Returned(call,
                        [ok |-> r.ok,
                         df |-> RowsPassedToInsert(store, today, call.args[2],
                                                   call.args[3])])
    /\ UNCHANGED <<today, ti, xcom>>

NextTransit == CallMotMain

SpecTransit == InitTransit /\ [][NextTransit]_vars

\* The dates the source holds that are later than the latest date of db.
SourceDatesAfter(api, db) ==
    {api.records[i].date[1] : i \in 1..Len(api.records)}
        \ (0..MaxOf(DOMAIN db))

\* C25: after a run of the transit collector in which the source answers
\* and the database is up, every source date later than the latest date the
\* table held is a row of the table, however many months the table lagged.
C25_EverySourceDateAfterLatestInserted ==
    (/\ call.fn = "mot_main" /\ call.runs = 1
     /\ call.args[2].up /\ call.args[3] = "none")
    => SourceDatesAfter(call.args[2], call.args[1]) \subseteq DOMAIN store

\* The same, for a table whose latest date is in the current month or in
\* the month before it.
C25_LagOfAtMostOneMonth ==
    (/\ call.fn = "mot_main" /\ call.runs = 1
     /\ call.args[2].up /\ call.args[3] = "none"
     /\ MaxOf(DOMAIN call.args[1]) >= ToOrdinal(2024, 12, 1))
    => SourceDatesAfter(call.args[2], call.args[1]) \subseteq DOMAIN store

\* C26: the rows a transit run passes to insert_new_data are all dated after
\* the latest date the table held when the run read it; the run changes no
\* row the table held and the table's latest date does not decrease.
C26_OnlyDatesAfterLatestInserted ==
    [][CallMotMain =>
         /\ \A i \in 1..Len(call'.ret.df) :
               call'.ret.df[i].feature_date > MaxOf(DOMAIN store)
         /\ \A d \in DOMAIN store : d \in DOMAIN store' /\ store'[d] = store[d]
         /\ MaxOf(DOMAIN store') >= MaxOf(DOMAIN store)
      ]_vars

\* A run that inserted rows while the source also held a record of the
\* latest stored date and one of an earlier date.
C26_Witness ==
    /\ call.fn = "mot_main" /\ call.runs = 1
    /\ Len(call.ret.df) > 0
    /\ DOMAIN store # DOMAIN call.args[1]
    /\ \E i, j \in 1..Len(call.args[2].records) :
          /\ call.args[2].records[i].date[1] = MaxOf(DOMAIN call.args[1])
          /\ call.args[2].records[j].date[1] < MaxOf(DOMAIN call.args[1])
(***************************************************************************)
(* SpecStages: the three collectors run one after the other, in any order  *)
(* and any number of times up to MaxStages, each run meeting any state of  *)
(* its source and of the database.  call.runs counts the stages run and    *)
(* call.ret lists the holiday calendars the day-type stages were given.    *)
(***************************************************************************)
MaxStages == 4

InitStages ==
    /\ store \in InitialStores
    /\ today = RunDate
    /\ ti = <<>>
    /\ xcom = <<>>
    /\ call = Pending("stages", <<>>)

StageTransit ==
    /\ call.fn = "stages" /\ call.runs < MaxStages
    /\ \E api \in MotApis, f \in DbFaults :
          store' = mot_main(store, today, api, f).db
    /\ call' = Returned(call, call.ret)
    /\ UNCHANGED <<today, ti, xcom>>

StageRain ==
    /\ call.fn = "stages" /\ call.runs < MaxStages
    /\ \E points \in RainAnswers, client_up \in BOOLEAN, f \in DbFaults :
          store' = rain_main(store, points, client_up, f).db
    /\ call' = Returned(call, call.ret)
    /\ UNCHANGED <<today, ti, xcom>>

StageDayType ==
    /\ call.fn = "stages" /\ call.runs < MaxStages
    /\ \E holiday_df \in HolidayCalendars, f \in DbFaults :
          /\ store' = day_type_main(store, holiday_df, f).db
          /\ call' = Returned(call, Append(call.ret, holiday_df))
    /\ UNCHANGED <<today, ti, xcom>>

NextStages ==
    \/ StageTransit
    \/ StageRain
    \/ StageDayType

SpecStages == InitStages /\ [][NextStages]_vars

\* C27: over any sequence of stage runs, a row whose day_type is 0, 1 or 2
\* keeps that day_type for ever and a row whose rain_average is not NULL
\* keeps that rain_average for ever, whatever the state of the sources.
C27_ClassifiedAndRainValuesFrozen ==
    [][\A d \in DOMAIN store :
          /\ d \in DOMAIN store'
          /\ store[d]["day_type"] \in {0, 1, 2}
                => store'[d]["day_type"] = store[d]["day_type"]
          /\ store[d]["rain_average"] # <<>>
                => store'[d]["rain_average"] = store[d]["rain_average"]
      ]_vars

\* 2025-01-11 was classified Festival by a day-type stage whose calendar
\* download had failed; a later stage given the calendar that names the day
\* a holiday left it Festival, and its rain value is in place.
C27_Witness ==
    /\ call.fn = "stages"
    /\ call.ret = << {}, {[enc |-> "compact", y |-> 2025, m |-> 1, d |-> 11]} >>
    /\ ToOrdinal(2025, 1, 11) \in DOMAIN store
    /\ store[ToOrdinal(2025, 1, 11)]["day_type"] = 2
    /\ store[ToOrdinal(2025, 1, 11)]["rain_average"] = <<300, 1>>
(***************************************************************************)
(* The report of a run and the verdicts it reads (under Spec).             *)
(***************************************************************************)

\* C28: when generate_final_report has executed in a run, each of the three
\* stage results it read is present with verdict PASS or WARNING, and the
\* overall_status of the report is PASS or WARNING.
C28_ReportOnlyOverNonFailVerdicts ==
    (Executed("final_quality_validation") \/ xcom["final_report"] # <<>>) =>
        /\ \A i \in 1..Len(Stages) :
              /\ xcom[Stages[i].key] # <<>>
              /\ Verdict(i) \in {"PASS", "WARNING"}
        /\ xcom["final_report"] # <<>>
        /\ xcom["final_report"][1].overall_status \in {"PASS", "WARNING"}
        /\ \A i \in 1..Len(Stages) :
              xcom["final_report"][1].stages[Stages[i].name] = xcom[Stages[i].key]

\* A report over a WARNING transit stage: its overall_status is WARNING.
C28_Witness ==
    /\ Executed("final_quality_validation")
    /\ Verdict(1) = "WARNING"
    /\ xcom["final_report"] # <<>>
    /\ xcom["final_report"][1].overall_status = "WARNING"
(***************************************************************************)
(* A run whose quality window holds no row (under Spec).  No task removes  *)
(* a row and only the transit collection, which runs before every check,   *)
(* adds one: the window is empty now iff it was when the checks read it.   *)
(***************************************************************************)

\* The transit check reported an empty window as complete.
EmptyWindowTransitPass ==
    LET r == xcom["mot_quality_result"][1]
    IN /\ r.records_processed = 0
       /\ SameScore(r.quality_score, <<1, 1>>)
       /\ r.status = "PASS"

\* The rain check, if it has reported, reported score 0.0 and FAIL, and the
\* run goes to rain_quality_failed and to nothing of the DayType stage.
EmptyWindowRainFail ==
    xcom["rain_quality_result"] # <<>> =>
        /\ xcom["rain_quality_result"][1].quality_score[1] = 0
        /\ xcom["rain_quality_result"][1].status = "FAIL"
        /\ ti["collect_day_type_data"].state = "skipped"
        /\ \A t \in LaterStageTasks(2) : ~Executed(t)
        /\ RunComplete => ti["rain_quality_failed"].state = "success"

LiveStores == {<<>>, [d \in {ToOrdinal(2025, 1, 10)} |-> PlaceholderRow(d)]}

InitLive == Init /\ store \in LiveStores

SpecLive == InitLive /\ [][Next]_vars /\ WF_vars(Next)

\* The four endpoints of the run.
Endpoints ==
    {"pipeline_success", "mot_quality_failed", "rain_quality_failed",
     "day_type_quality_failed"}

\* No try of any task of the run has raised.
NoTaskRaised == FailedTries(ti) = 0

ExecutedEndpoints == {e \in Endpoints : Executed(e)}

\* C30: every run comes to its end; a run in which no task raised has then
\* executed end_weekly_data_collection and exactly one of the four
\* endpoints, and at no moment more than one.
C30_RunEndsThroughExactlyOneEndpoint ==
    /\ <>RunComplete
    /\ [](NoTaskRaised => Cardinality(ExecutedEndpoints) <= 1)
    /\ []((RunComplete /\ NoTaskRaised) =>
             /\ ti["end_weekly_data_collection"].state = "success"
             /\ Cardinality(ExecutedEndpoints) = 1
             /\ \A e \in Endpoints \ ExecutedEndpoints : ti[e].state = "skipped")

\* A run without a raise that ended through day_type_quality_failed alone.
C30_Witness ==
    /\ RunComplete
    /\ NoTaskRaised
    /\ ti["end_weekly_data_collection"].state = "success"
    /\ ExecutedEndpoints = {"day_type_quality_failed"}

\* A run without a raise that ended through pipeline_success alone.
C30_WitnessSuccess ==
    /\ RunComplete
    /\ NoTaskRaised
    /\ ti["end_weekly_data_collection"].state = "success"
    /\ ExecutedEndpoints = {"pipeline_success"}

====
